---- MODULE Spec2Model ----
(***************************************************************************)
(* A model of flate-ts: the bit input (input.ts), the Huffman table        *)
(* (huffman-trees.ts), the inflate engine (inflate.ts) and the ZLIB        *)
(* wrapper (zlib-iterable.ts).                                             *)
(*                                                                         *)
(* JavaScript numbers are modelled by integers.  The values the code       *)
(* passes through the 32-bit operators (<<, >>, |, &, ~) are kept as       *)
(* signed 32-bit integers, as ToInt32 leaves them.  A typed array          *)
(* (Uint8Array) stores its values modulo 256; a read outside an array, or  *)
(* of a slot of a plain Array that was never written, gives Undefined.     *)
(***************************************************************************)
EXTENDS Integers, Sequences, FiniteSets, TLC

VARIABLES
    phase,                    \* "new" | "ready" | "failed": construction of the engine
    wrapper,                  \* "none" | "inflate" | "zlib" | "table": the class constructed
    iterator,                 \* the bytes the input producer has still to yield
    bitBuffer,                \* InputBuffer._bitBuffer (a signed 32-bit value)
    bitsInBuffer,             \* InputBuffer._bitsInBuffer
    state,                    \* Inflate._state
    bfinal,                   \* Inflate._bfinal
    isDynamic,                \* Inflate._isDynamic
    end_of_block_code_seen,   \* Inflate._end_of_block_code_seen
    literalLengthTree,        \* Inflate._literalLengthTree
    distanceTree,             \* Inflate._distanceTree
    window,                   \* Inflate._window: the slots written so far (see WindowLoad)
    end,                      \* Inflate._end
    current,                  \* Inflate._current
    lengthDecompressed,       \* Inflate._lengthDecompressed
    lengthUncompressed,       \* Inflate._lengthUncompressed
    s1,                       \* Inflate.s1
    s2,                       \* Inflate.s2, held as a wide number (see Wide)
    codeList,                 \* Inflate._codeList
    codeLengthTreeCodeLength, \* Inflate._codeLengthTreeCodeLength
    verified,                 \* the values the checksum callback was invoked with
    result,                   \* what the last call returned or threw
    source,                   \* history: the whole input the producer was created with
    yielded,                  \* history: the bytes returned by pulls so far
    written,                  \* history: the bytes put into the window so far
    calls,                    \* history: the number of calls made on the engine
    lastOp                    \* history: the last operation and its arguments

vars == <<phase, wrapper, iterator, bitBuffer, bitsInBuffer, state, bfinal,
          isDynamic, end_of_block_code_seen, literalLengthTree, distanceTree,
          window, end, current, lengthDecompressed, lengthUncompressed, s1, s2,
          codeList, codeLengthTreeCodeLength, verified, result, source, yielded,
          written, calls, lastOp>>

-----------------------------------------------------------------------------
(* JavaScript values and 32-bit arithmetic                                  *)

\* The value of a read that finds nothing: a hole of an Array, an index out of range.
Undefined == -1

\* The number NaN, which arithmetic on undefined produces; no count of bits
\* and no sum of the model comes near this value.
NaN == -1000000000

MinInt32 == -2147483647 - 1

\* `LET x == v IN Body(x)`, for a v that is worked out once and used often.
With(v, Body(_)) == Body(v)

\* The statements Body that follow a call which left the record m: they are
\* skipped when the call threw.
Then(m, Body(_)) == IF m.thrown # "" THEN m ELSE Body(m)

\* x >> n of JavaScript on a signed 32-bit x: the shift count is taken modulo 32,
\* the sign bit is copied in from the left.
Sar(x, n) == IF n % 32 = 31 THEN (IF x < 0 THEN -1 ELSE 0) ELSE x \div (2 ^ (n % 32))

\* The low k bits of a signed 32-bit x as a non-negative number, 0 <= k <= 31.
LowBits(x, k) == IF k = 31 THEN (IF x >= 0 THEN x ELSE (x - MinInt32))
                 ELSE x % (2 ^ k)

\* lo * 2^k read as a signed 32-bit number, for 0 <= lo < 2^(32-k), 0 < k < 32:
\* bit 31-k of lo becomes the sign bit.
Signed(lo, k) == IF lo = 0 THEN 0
                 ELSE IF lo >= 2 ^ (31 - k)
                 THEN (lo - 2 ^ (31 - k)) * (2 ^ k) + MinInt32
                 ELSE lo * (2 ^ k)

\* x << n of JavaScript: the shift count is taken modulo 32, the bits shifted past
\* bit 31 are lost and the result is read as a signed 32-bit number.
Shl(x, n) == IF n % 32 = 0 THEN x ELSE Signed(LowBits(x, 32 - (n % 32)), n % 32)

\* x & v for 0 <= x, v <= 255.
And8(x, v) ==
      (IF x % 2 = 1 /\ v % 2 = 1 THEN 1 ELSE 0)
    + (IF (x \div 2) % 2 = 1 /\ (v \div 2) % 2 = 1 THEN 2 ELSE 0)
    + (IF (x \div 4) % 2 = 1 /\ (v \div 4) % 2 = 1 THEN 4 ELSE 0)
    + (IF (x \div 8) % 2 = 1 /\ (v \div 8) % 2 = 1 THEN 8 ELSE 0)
    + (IF (x \div 16) % 2 = 1 /\ (v \div 16) % 2 = 1 THEN 16 ELSE 0)
    + (IF (x \div 32) % 2 = 1 /\ (v \div 32) % 2 = 1 THEN 32 ELSE 0)
    + (IF (x \div 64) % 2 = 1 /\ (v \div 64) % 2 = 1 THEN 64 ELSE 0)
    + (IF (x \div 128) % 2 = 1 /\ (v \div 128) % 2 = 1 THEN 128 ELSE 0)

\* a | (v << n) of JavaScript for a signed 32-bit a and a byte v: the bits of
\* v << n that a has already are taken from a before the two are added.
OrShifted(a, v, n) == (a - Shl(And8(Sar(a, n) % 256, v), n)) + Shl(v, n)

\* x & ((1 << count) - 1): the low count bits of x, count < 31.
AndMask(x, count) == x % (2 ^ count)

\* a % n of JavaScript: the sign of the result is the sign of a.
JsRem(a, n) == IF a >= 0 THEN a % n ELSE 0 - ((0 - a) % n)

\* A store into a Uint8Array keeps the value modulo 256.
ToUint8(v) == v % 256

\* a + b of JavaScript where either may be undefined or NaN.
JsAdd(a, b) == IF a \in {Undefined, NaN} \/ b \in {Undefined, NaN} THEN NaN ELSE a + b

\* A JavaScript number holds every integer up to 2^53, more than the integers
\* of the model checker do.  A sum that can pass 2^31 is held in two parts:
\* <<hi, lo>> stands for hi * 65536 + lo, with lo in 0..65535.
Wide(n) == <<n \div 65536, n % 65536>>

WideNaN == <<NaN, NaN>>

\* w + x of JavaScript for a wide w and a number x that is not negative.
WideAdd(w, x) ==
    IF w = WideNaN \/ x \in {Undefined, NaN} THEN WideNaN
    ELSE <<w[1] + ((w[2] + x) \div 65536), (w[2] + x) % 65536>>

\* w % n of JavaScript for a wide w that is not negative: 65536 % n times the
\* high part, plus the low part.
WideRem(w, n) ==
    IF w = WideNaN THEN WideNaN ELSE Wide((((w[1] % n) * (65536 % n)) + w[2]) % n)

\* Whether the wide w is at most hi * 65536 + lo.
WideAtMost(w, hi, lo) == w[1] < hi \/ (w[1] = hi /\ w[2] <= lo)

\* f with f[i] = v, the domain grown by i when i is new to it.
Store(f, i, v) == (i :> v) @@ f

\* f[i], or undefined when the slot does not exist.
Load(f, i) == IF i \in DOMAIN f THEN f[i] ELSE Undefined

-----------------------------------------------------------------------------
(* InputBuffer (input.ts).  m is the record of the fields of the engine and *)
(* of its producer; an operation gives the record it leaves, with its       *)
(* return value in m.ret.                                                   *)

\* One `!(result = this._iterator.next()).done` that succeeds, with the two
\* statements it guards.
LoadByte(m) ==
    [m EXCEPT !.bitBuffer = OrShifted(m.bitBuffer, Head(m.iterator), m.bitsInBuffer),
              !.bitsInBuffer = m.bitsInBuffer + 8,
              !.iterator = Tail(m.iterator)]

\* `if ((this._bitsInBuffer < count) && !(result = this._iterator.next()).done)`
\* with what it guards; the producer is asked only when the first test holds.
LoadIfShort(m, count) ==
    IF m.bitsInBuffer < count /\ m.iterator # <<>> THEN LoadByte(m) ELSE m

\* The fill both TryGetBits and GetBits start with, at most two bytes: the
\* inner `if` is reached only when the outer one loaded a byte.
Fill(m, count) ==
    IF m.bitsInBuffer < count /\ m.iterator # <<>>
    THEN LoadIfShort(LoadByte(m), count)
    ELSE m

TryGetBits(m, count) ==
    With(Fill(m, count), LAMBDA m1 : [m1 EXCEPT !.ret = m1.bitBuffer])

GetBits(m, count) ==
    With(Fill(m, count), LAMBDA m1 :
        [m1 EXCEPT !.ret = AndMask(m1.bitBuffer, count),
                   !.bitBuffer = Sar(m1.bitBuffer, count),
                   !.bitsInBuffer = m1.bitsInBuffer - count])

SkipBits(m, n) ==
    IF n = Undefined
    THEN [m EXCEPT !.bitsInBuffer = NaN]
    ELSE [m EXCEPT !.bitBuffer = Sar(m.bitBuffer, n),
                   !.bitsInBuffer = m.bitsInBuffer - n]

\* SkipToByteBoundary that skips nothing.
SkipToByteBoundaryNone(m) == m

SkipToByteBoundary(m) ==
    [m EXCEPT !.bitBuffer = Sar(m.bitBuffer, JsRem(m.bitsInBuffer, 8)),
              !.bitsInBuffer = m.bitsInBuffer - JsRem(m.bitsInBuffer, 8)]

-----------------------------------------------------------------------------
(* HuffmanTree (huffman-trees.ts)                                           *)

MaxLiteralTreeElements == 288
MaxDistTreeElements == 32
EndOfBlockCode == 256
NumberOfCodeLengthTreeElements == 19

\* An array of n zeros: new Uint8Array(n).
Zeros(n) == [i \in 0..(n - 1) |-> 0]

\* The length of an array held as a function on 0..n-1.
Len0(a) == Cardinality(DOMAIN a)

\* One turn of the do..while of BitReverse on r = <<num, code>>.
BitReverseStep(r) ==
    <<2 * (r[1] + (IF r[2] % 2 = 1 /\ r[1] % 2 = 0 THEN 1 ELSE 0)), r[2] \div 2>>

\* n turns of it (at least one: the test follows the body).
RECURSIVE BitReverseLoop(_, _)
BitReverseLoop(r, n) ==
    IF n <= 1 \/ r[1] < 0 THEN BitReverseStep(r)
    ELSE BitReverseLoop(BitReverseLoop(r, n \div 2), n - (n \div 2))

\* BitReverse without the `num >> 1` of its return.
BitReverseUnshifted(code, length) == BitReverseLoop(<<0, code>>, length)[1]

BitReverse(code, length) == BitReverseLoop(<<0, code>>, length)[1] \div 2

\* `for (var length in codeLengths) max = Math.max(length, max)`: the loop
\* variable of for..in runs over the indices of the array, not over its values.
MaxCodeLength(codeLengths) == IF DOMAIN codeLengths = {} THEN 0 ELSE Len0(codeLengths) - 1

\* bitLengthCount after `for (var codeLength in this._codeLengthArray)
\* bitLengthCount[codeLength]++` and `bitLengthCount[0] = 0`: the loop variable
\* is again the index, and a store outside the 17 slots is dropped.
BitLengthCount(codeLengthArray) ==
    [b \in 0..16 |-> IF b # 0 /\ b \in DOMAIN codeLengthArray THEN 1 ELSE 0]

\* The body of `for (bits = 1; bits <= 16; bits++)`; tempCode stays below 2^17,
\* so its << 1 doubles it.
NextCodeStep(count, c, bits) ==
    LET tempCode == 2 * (c.tempCode + count[bits - 1])
    IN  [tempCode |-> tempCode, nextCode |-> [c.nextCode EXCEPT ![bits] = ToUint8(tempCode)]]

RECURSIVE NextCodeLoop(_, _, _, _)
NextCodeLoop(count, c, lo, hi) ==
    IF lo > hi \/ c.tempCode < 0 THEN c
    ELSE IF lo = hi THEN NextCodeStep(count, c, lo)
    ELSE NextCodeLoop(count, NextCodeLoop(count, c, lo, (lo + hi) \div 2),
                      ((lo + hi) \div 2) + 1, hi)

\* nextCode, a Uint8Array(17), after the loop over bits = 1..16.
NextCode(codeLengthArray) ==
    NextCodeLoop(BitLengthCount(codeLengthArray),
                 [tempCode |-> 0, nextCode |-> [b \in 0..16 |-> 0]], 1, 16).nextCode

\* The body of `for (i = 0; i < this._codeLengthArray.length; i++)`; c holds
\* the two arrays the loop updates.
CodeStep(codeLengthArray, c, i) ==
    LET len == codeLengthArray[i]
    IN  IF len > 0
        THEN [nextCode |-> [c.nextCode EXCEPT ![len] = ToUint8(c.nextCode[len] + 1)],
              code     |-> [c.code EXCEPT ![i] = ToUint8(BitReverse(c.nextCode[len], len))],
              done     |-> FALSE]
        ELSE c

\* The iterations lo..hi of that loop, in order.  Here and in the loops below
\* the range is split in halves and the state is looked at on entry, so that
\* the first half is evaluated before the second is entered.
RECURSIVE CodeLoop(_, _, _, _)
CodeLoop(codeLengthArray, c, lo, hi) ==
    IF c.done \/ lo > hi THEN c
    ELSE IF lo = hi THEN CodeStep(codeLengthArray, c, lo)
    ELSE CodeLoop(codeLengthArray, CodeLoop(codeLengthArray, c, lo, (lo + hi) \div 2),
                  ((lo + hi) \div 2) + 1, hi)

\* code is a Uint8Array(288) whatever the size of the alphabet.
CalculateHuffmanCode(codeLengthArray) ==
    CodeLoop(codeLengthArray,
             [nextCode |-> NextCode(codeLengthArray),
              code     |-> Zeros(MaxLiteralTreeElements),
              done     |-> FALSE],
             0, Len0(codeLengthArray) - 1).code

\* array[index] = v on a Uint8Array: kept modulo 256, dropped outside the array.
StoreU8(a, i, v) == IF i \in DOMAIN a THEN [a EXCEPT ![i] = ToUint8(v)] ELSE a

\* `for (j = 0; j < locs; j++) { table[start] = ch; start += increment }`: the
\* slots start, start + increment, ... take ch.
DirectFill(table, start, increment, ch, locs) ==
    [i \in DOMAIN table |->
        IF i >= start /\ (i - start) % increment = 0 /\ (i - start) \div increment < locs
        THEN ToUint8(ch) ELSE table[i]]

\* The array the local `array` of CreateTable names.
ArrayOf(t, name) == IF name = "table" THEN t.table
                    ELSE IF name = "left" THEN t.left ELSE t.right

SetArrayOf(t, name, index, v) ==
    IF name = "table" THEN [t EXCEPT !.table = StoreU8(t.table, index, v)]
    ELSE IF name = "left" THEN [t EXCEPT !.left = StoreU8(t.left, index, v)]
    ELSE [t EXCEPT !.right = StoreU8(t.right, index, v)]

\* The rest of a turn of that do..while, from `if (value > 0)` on.  start is
\* below 256 (it was read from the Uint8Array of codes), so
\* `start & codeBitMask` tests one of its bits.
OverflowTurn(w, value, start) ==
    IF value > 0
    THEN [w EXCEPT !.t = [w.t EXCEPT !.thrown = "InvalidHuffmanData"]]
    ELSE [w EXCEPT !.array = IF (start \div w.codeBitMask) % 2 = 0 THEN "left" ELSE "right",
                   !.index = IF value = Undefined THEN NaN ELSE 0 - value,
                   !.codeBitMask = 2 * w.codeBitMask,
                   !.overflowBits = w.overflowBits - 1]

\* One turn of the do..while of CreateTable for a code longer than tableBits.
\* w holds the tree and the locals array, index, codeBitMask and overflowBits.
\* The turn starts with `value = array[index]`; when that is 0 a new node is
\* made: value = -avail, array[index] = value, avail++.
OverflowStep(w, start) ==
    With(Load(ArrayOf(w.t, w.array), w.index), LAMBDA value0 :
        OverflowTurn(IF value0 = 0
                     THEN [w EXCEPT !.t = [SetArrayOf(w.t, w.array, w.index, 0 - w.t.avail)
                                               EXCEPT !.avail = w.t.avail + 1]]
                     ELSE w,
                     IF value0 = 0 THEN 0 - w.t.avail ELSE value0,
                     start))

\* The turns of the do..while: it ends when overflowBits reaches 0, or throws.
RECURSIVE OverflowLoop(_, _, _)
OverflowLoop(w, start, n) ==
    IF w.t.thrown # "" \/ w.overflowBits = 0 \/ n = 0 THEN w
    ELSE IF n = 1 THEN OverflowStep(w, start)
    ELSE OverflowLoop(OverflowLoop(w, start, n \div 2), start, n - (n \div 2))

\* `array[index] = ch` after the do..while, unless it threw.
OverflowStore(w, ch) == IF w.t.thrown # "" THEN w.t ELSE SetArrayOf(w.t, w.array, w.index, ch)

\* The body of the loop over ch of CreateTable.  The do..while runs at least
\* once and at most len times.
CreateTableStep(t, ch, codeArray) ==
    LET len   == t.codeLengthArray[ch]
        start == codeArray[ch]
    IN  IF len > 0
        THEN IF len <= t.tableBits
             THEN IF start >= 2 ^ len
                  THEN [t EXCEPT !.thrown = "InvalidHuffmanData"]
                  ELSE [t EXCEPT !.table = DirectFill(t.table, start, 2 ^ len, ch,
                                                      2 ^ (t.tableBits - len))]
             ELSE OverflowStore(
                      OverflowLoop(OverflowStep([t            |-> t,
                                                 array        |-> "table",
                                                 index        |-> AndMask(start, t.tableBits),
                                                 codeBitMask  |-> 2 ^ t.tableBits,
                                                 overflowBits |-> len - t.tableBits],
                                                start),
                                   start, len),
                      ch)
        ELSE t

\* The iterations lo..hi of the loop over ch, in order; an exception ends it.
RECURSIVE CreateTableLoop(_, _, _, _)
CreateTableLoop(t, codeArray, lo, hi) ==
    IF t.thrown # "" \/ lo > hi THEN t
    ELSE IF lo = hi THEN CreateTableStep(t, lo, codeArray)
    ELSE CreateTableLoop(CreateTableLoop(t, codeArray, lo, (lo + hi) \div 2), codeArray,
                         ((lo + hi) \div 2) + 1, hi)

CreateTable(t) ==
    CreateTableLoop([t EXCEPT !.table = Zeros(2 ^ t.tableBits),
                              !.left = Zeros(2 * Len0(t.codeLengthArray)),
                              !.right = Zeros(2 * Len0(t.codeLengthArray)),
                              !.avail = Len0(t.codeLengthArray)],
                    CalculateHuffmanCode(t.codeLengthArray), 0, Len0(t.codeLengthArray) - 1)

\* new HuffmanTree(codeLengths); thrown names the exception the constructor
\* ended with, if any.
HuffmanTree(codeLengths) ==
    CreateTable([codeLengthArray |-> codeLengths,
                 maxCodeLength   |-> MaxCodeLength(codeLengths),
                 tableBits       |-> IF Len0(codeLengths) = MaxLiteralTreeElements THEN 9 ELSE 7,
                 tableMask       |-> IF Len0(codeLengths) = MaxLiteralTreeElements THEN 511 ELSE 127,
                 table           |-> Zeros(0),
                 left            |-> Zeros(0),
                 right           |-> Zeros(0),
                 avail           |-> 0,
                 thrown          |-> ""])

GetStaticLiteralTreeLength ==
    [i \in 0..(MaxLiteralTreeElements - 1) |->
        IF i <= 143 THEN 8 ELSE IF i <= 255 THEN 9 ELSE IF i <= 279 THEN 7 ELSE 8]

GetStaticDistanceTreeLength == [i \in 0..(MaxDistTreeElements - 1) |-> 5]

StaticLiteralLengthTree == HuffmanTree(GetStaticLiteralTreeLength)

StaticDistanceTree == HuffmanTree(GetStaticDistanceTreeLength)

\* The do..while of GetNextSymbol, entered with a negative symbol; it ends at a
\* symbol that is not negative (or at undefined, which is not below 0).
RECURSIVE Descend(_, _, _, _)
Descend(tree, symbol, bits, mask) ==
    LET at   == 0 - symbol
        next == IF (bits \div mask) % 2 = 0 THEN Load(tree.left, at) ELSE Load(tree.right, at)
    IN  IF next < 0 /\ next # Undefined THEN Descend(tree, next, bits, 2 * mask) ELSE next

\* The end of GetNextSymbol, from `var codeLength` on.  A comparison with
\* undefined or NaN is false.
SkipSymbol(m, symbol, codeLength) ==
    IF codeLength # Undefined /\ m.bitsInBuffer # NaN /\ codeLength > m.bitsInBuffer
    THEN [m EXCEPT !.thrown = "EndOfStreamException()"]
    ELSE [SkipBits(m, codeLength) EXCEPT !.ret = symbol]

\* GetNextSymbol(input): m.ret is the symbol, m.thrown the exception.
GetNextSymbol(tree, m) ==
    With(TryGetBits(m, tree.maxCodeLength), LAMBDA m1 :
    With(IF tree.table[m1.ret % (tree.tableMask + 1)] < 0
         THEN Descend(tree, tree.table[m1.ret % (tree.tableMask + 1)], m1.ret,
                      2 ^ tree.tableBits)
         ELSE tree.table[m1.ret % (tree.tableMask + 1)], LAMBDA symbol :
        SkipSymbol(m1, symbol, Load(tree.codeLengthArray, symbol))))

-----------------------------------------------------------------------------
(* Inflate (inflate.ts)                                                     *)

BASE == 65521
WindowSize == 32768
WindowMask == 32767

\* enum State
ReadingUncompressed == 0
ReadingStatic == 1
ReadingDynamic == 2
UnknownBlockType == 3
DecodingBlock == 4
ReadingFinalBit == 5
ReadingBlockType == 6
Done == 7

s_extraLengthBits ==
    <<0, 0, 0, 0, 0, 0, 0, 0, 1, 1, 1, 1, 2, 2, 2, 2, 3, 3, 3, 3, 4, 4, 4, 4, 5, 5, 5, 5, 0>>

s_lengthBase ==
    <<3, 4, 5, 6, 7, 8, 9, 10, 11, 13, 15, 17, 19, 23, 27, 31, 35, 43, 51, 59,
      67, 83, 99, 115, 131, 163, 195, 227, 258>>

s_distanceBasePosition ==
    <<1, 2, 3, 4, 5, 7, 9, 13, 17, 25, 33, 49, 65, 97, 129, 193, 257, 385, 513, 769,
      1025, 1537, 2049, 3073, 4097, 6145, 8193, 12289, 16385, 24577, 0, 0>>

s_codeOrder == <<16, 17, 18, 0, 8, 7, 9, 6, 10, 5, 11, 4, 12, 3, 13, 2, 14, 1, 15>>

s_staticDistanceTreeTable ==
    <<0, 16, 8, 24, 4, 20, 12, 28, 2, 18, 10, 26, 6, 22, 14, 30,
      1, 17, 9, 25, 5, 21, 13, 29, 3, 19, 11, 27, 7, 23, 15, 31>>

\* a[i] of a JavaScript array literal held as a sequence (the first index is 0).
At(a, i) == IF i >= 0 /\ i < Len(a) THEN a[i + 1] ELSE Undefined

\* x % BASE, which leaves NaN as it is.
ModBase(x) == IF x = NaN THEN NaN ELSE x % BASE

\* ((s2 % BASE) << 16) | (s1 % BASE): the two operands are turned into 32-bit
\* integers (NaN into 0) and the result is read as a signed 32-bit number.
AdlerValue(a1, a2) ==
    LET lo == IF a1 = NaN THEN 0 ELSE a1 % BASE
        hi == IF a2 = WideNaN THEN 0 ELSE WideRem(a2, BASE)[2]
    IN  Shl(hi, 16) + lo

\* The window is held as the slots written since the model's first state
\* (slots) over a run of `run` slots, 0..run-1, that all held the byte `fill`
\* then; a slot in neither was never written.
WindowLoad(w, i) ==
    IF i \in DOMAIN w.slots THEN w.slots[i]
    ELSE IF i >= 0 /\ i < w.run THEN w.fill
    ELSE Undefined

WindowStore(w, i, v) == [w EXCEPT !.slots = Store(w.slots, i, v)]

\* Write(b) without the `this._end &= WindowMask`.
WriteUnmasked(m, b) ==
    [m EXCEPT !.window = WindowStore(m.window, m.end, b),
              !.end = m.end + 1,
              !.lengthDecompressed = m.lengthDecompressed + 1,
              !.s1 = JsAdd(m.s1, b),
              !.s2 = WideAdd(m.s2, JsAdd(m.s1, b)),
              !.written = Append(m.written, b)]

\* Write with s2 kept in 32 bits.
WriteWrapped(m, b) ==
    [m EXCEPT !.window = WindowStore(m.window, m.end, b),
              !.end = (m.end + 1) % WindowSize,
              !.lengthDecompressed = m.lengthDecompressed + 1,
              !.s1 = JsAdd(m.s1, b),
              !.s2 = <<WideAdd(m.s2, JsAdd(m.s1, b))[1] % 65536,
                       WideAdd(m.s2, JsAdd(m.s1, b))[2]>>,
              !.written = Append(m.written, b)]

\* Write(b): add a byte to the output window.
Write(m, b) ==
    [m EXCEPT !.window = WindowStore(m.window, m.end, b),
              !.end = (m.end + 1) % WindowSize,
              !.lengthDecompressed = m.lengthDecompressed + 1,
              !.s1 = JsAdd(m.s1, b),
              !.s2 = WideAdd(m.s2, JsAdd(m.s1, b)),
              !.written = Append(m.written, b)]

\* CopyStep with the masking of the second loop left out.
CopyStepUnmasked(c, masked) ==
    [window    |-> WindowStore(c.window, c.end, WindowLoad(c.window, c.copyStart)),
     copyStart |-> c.copyStart + 1,
     end       |-> c.end + 1,
     s1        |-> JsAdd(c.s1, WindowLoad(c.window, c.copyStart)),
     s2        |-> WideAdd(c.s2, JsAdd(c.s1, WindowLoad(c.window, c.copyStart))),
     written   |-> Append(c.written, WindowLoad(c.window, c.copyStart))]

\* One turn of either while loop of WriteLengthDistance on c, the window and
\* the two cursors; the second loop masks the cursors after each byte, the
\* first does not.
CopyStep(c, masked) ==
    LET src == WindowLoad(c.window, c.copyStart)
    IN  [window    |-> WindowStore(c.window, c.end, src),
         copyStart |-> IF masked THEN (c.copyStart + 1) % WindowSize ELSE c.copyStart + 1,
         end       |-> IF masked THEN (c.end + 1) % WindowSize ELSE c.end + 1,
         s1        |-> JsAdd(c.s1, src),
         s2        |-> WideAdd(c.s2, JsAdd(c.s1, src)),
         written   |-> Append(c.written, src)]

\* n turns of it.
RECURSIVE CopyLoop(_, _, _)
CopyLoop(c, masked, n) ==
    IF c.end < 0 \/ n <= 0 THEN c
    ELSE IF n = 1 THEN CopyStep(c, masked)
    ELSE CopyLoop(CopyLoop(c, masked, n \div 2), masked, n - (n \div 2))

\* (this._end - distance) & WindowMask; the & turns NaN into 0.
CopyStart(m, distance) == IF distance = NaN THEN 0 ELSE (m.end - distance) % WindowSize

WriteLengthDistance(m, length, distance) ==
    With(CopyLoop([window    |-> m.window,
                   copyStart |-> CopyStart(m, distance),
                   end       |-> m.end,
                   s1        |-> m.s1,
                   s2        |-> m.s2,
                   written   |-> m.written],
                  ~(   CopyStart(m, distance) <= WindowSize - length
                    /\ m.end < WindowSize - length),
                  length), LAMBDA c :
        [m EXCEPT !.lengthDecompressed = m.lengthDecompressed + length,
                  !.window = c.window,
                  !.end = c.end,
                  !.s1 = c.s1,
                  !.s2 = c.s2,
                  !.written = c.written])

\* ~x for the x >= 0 the code applies it to.
Not32(x) == (0 - x) - 1

DecodeUncompressedBlock(m) ==
    With(GetBits(SkipToByteBoundary(m), 8), LAMBDA l1 :
    With(GetBits(l1, 8), LAMBDA l2 :
    With(GetBits(l2, 8), LAMBDA c1 :
    With(GetBits(c1, 8), LAMBDA c2 :
        IF l1.ret + l2.ret * 256 # Not32(c1.ret + c2.ret * 256)
        THEN [c2 EXCEPT !.lengthUncompressed = l1.ret + l2.ret * 256,
                        !.thrown = "InvalidBlockLength"]
        ELSE [c2 EXCEPT !.lengthUncompressed = l1.ret + l2.ret * 256,
                        !.state = ReadingFinalBit,
                        !.ret = TRUE]))))

\* The length of a match from its symbol, 257 or more, as DecodeBlock works it
\* out: m.ret is the length.
MatchLength(m, smbl) ==
    IF smbl - 257 < 8 THEN [m EXCEPT !.ret = (smbl - 257) + 3]
    ELSE IF smbl - 257 = 28 THEN [m EXCEPT !.ret = 258]
    ELSE IF smbl - 257 < 0 \/ smbl - 257 >= Len(s_extraLengthBits)
    THEN [m EXCEPT !.thrown = "GenericInvalidData"]
    ELSE With(GetBits(m, At(s_extraLengthBits, smbl - 257)), LAMBDA g :
             [g EXCEPT !.ret = At(s_lengthBase, smbl - 257) + g.ret])

\* The distance of a match from its code: m.ret is the offset.
MatchOffset(m, distanceCode) ==
    IF distanceCode > 3
    THEN With(GetBits(m, Sar(distanceCode - 2, 1)), LAMBDA e :
             [e EXCEPT !.ret = JsAdd(At(s_distanceBasePosition, distanceCode), e.ret)])
    ELSE [m EXCEPT !.ret = distanceCode + 1]

\* The distance code, from the tree of a dynamic block or from five bits.
MatchDistance(m) ==
    IF m.isDynamic
    THEN Then(GetNextSymbol(m.distanceTree, m), LAMBDA g : MatchOffset(g, g.ret))
    ELSE With(GetBits(m, 5), LAMBDA b :
             MatchOffset(b, At(s_staticDistanceTreeTable, b.ret)))

\* What the while loop of DecodeBlock does with a symbol above 256; d holds
\* the engine, the local freeBytes, and whether the loop goes on.
DecodeMatch(d, g, smbl) ==
    With(MatchLength(g, smbl), LAMBDA len :
        IF len.thrown # "" THEN [d EXCEPT !.m = len, !.running = FALSE]
        ELSE With(MatchDistance(len), LAMBDA off :
                 IF off.thrown # "" THEN [d EXCEPT !.m = off, !.running = FALSE]
                 ELSE [d EXCEPT !.m = WriteLengthDistance(off, len.ret, off.ret),
                                !.freeBytes = d.freeBytes - len.ret]))

\* One turn of the while loop of DecodeBlock.
DecodeBlockStep(d) ==
    With(GetNextSymbol(d.m.literalLengthTree, d.m), LAMBDA g :
        IF g.thrown # "" THEN [d EXCEPT !.m = g, !.running = FALSE]
        ELSE IF g.ret < 256
        THEN [d EXCEPT !.m = Write(g, g.ret), !.freeBytes = d.freeBytes - 1]
        ELSE IF g.ret = 256
        THEN [d EXCEPT !.m = [g EXCEPT !.state = ReadingFinalBit,
                                       !.end_of_block_code_seen = TRUE,
                                       !.ret = TRUE],
                       !.running = FALSE]
        ELSE DecodeMatch(d, g, g.ret))

\* At most n turns of it: each turn that goes on takes at least one of the
\* free bytes, so the loop has ended after WindowSize turns.
RECURSIVE DecodeBlockLoop(_, _)
DecodeBlockLoop(d, n) ==
    IF ~d.running \/ d.freeBytes <= 258 \/ n <= 0 THEN d
    ELSE IF n = 1 THEN DecodeBlockStep(d)
    ELSE DecodeBlockLoop(DecodeBlockLoop(d, n \div 2), n - (n \div 2))

DecodeBlock(m) ==
    With(DecodeBlockLoop([m |-> m, freeBytes |-> WindowSize - m.lengthDecompressed,
                          running |-> TRUE], WindowSize), LAMBDA d :
        IF ~d.running THEN d.m
        ELSE [d.m EXCEPT !.state = DecodingBlock,
                         !.end_of_block_code_seen = FALSE,
                         !.ret = TRUE])

\* The first while loop of DecodeDynamicBlockHeader, turns lo..hi: three bits
\* for each code length of the code length alphabet, in s_codeOrder.
RECURSIVE CodeLengthCodesLoop(_, _, _)
CodeLengthCodesLoop(m, lo, hi) ==
    IF m.thrown # "" \/ lo > hi THEN m
    ELSE IF lo = hi
    THEN With(GetBits(m, 3), LAMBDA g :
             [g EXCEPT !.codeLengthTreeCodeLength =
                          Store(g.codeLengthTreeCodeLength, At(s_codeOrder, lo), g.ret)])
    ELSE CodeLengthCodesLoop(CodeLengthCodesLoop(m, lo, (lo + hi) \div 2),
                             ((lo + hi) \div 2) + 1, hi)

\* The for loop that follows: the lengths from codeLengthCodeCount on are 0.
ClearCodeLengthCodes(a, codeLengthCodeCount) ==
    LET cleared == {At(s_codeOrder, i) : i \in codeLengthCodeCount..(Len(s_codeOrder) - 1)}
    IN  [j \in (DOMAIN a) \cup cleared |-> IF j \in cleared THEN 0 ELSE a[j]]

\* `for (j = 0; j < repeatCount; j++) this._codeList[loopCounter++] = v`.
Repeat(a, loopCounter, repeatCount, v) ==
    [j \in (DOMAIN a) \cup (loopCounter..(loopCounter + repeatCount - 1)) |->
        IF j >= loopCounter /\ j < loopCounter + repeatCount THEN v ELSE a[j]]

\* RepeatCase without its test of loopCounter + repeatCount.
RepeatCaseUnchecked(h, g, count, base, v, codeArraySize) ==
    With(GetBits(g, count), LAMBDA b :
        [h EXCEPT !.m = [b EXCEPT !.codeList = Repeat(b.codeList, h.loopCounter,
                                                      b.ret + base, v)],
                  !.loopCounter = h.loopCounter + (b.ret + base)])

\* The cases 18, 17 and 16 of the switch: count bits read, base added, the
\* value v repeated.  h holds the engine and loopCounter.
RepeatCase(h, g, count, base, v, codeArraySize) ==
    With(GetBits(g, count), LAMBDA b :
        IF h.loopCounter + (b.ret + base) > codeArraySize
        THEN [h EXCEPT !.m = [b EXCEPT !.thrown = "Invalid Data Exception"]]
        ELSE [h EXCEPT !.m = [b EXCEPT !.codeList = Repeat(b.codeList, h.loopCounter,
                                                           b.ret + base, v)],
                       !.loopCounter = h.loopCounter + (b.ret + base)])

\* The switch on lengthCode, the symbol g.ret.
CodeListCase(h, g, codeArraySize) ==
    IF g.ret = 18 THEN RepeatCase(h, g, 7, 11, 0, codeArraySize)
    ELSE IF g.ret = 17 THEN RepeatCase(h, g, 3, 3, 0, codeArraySize)
    ELSE IF g.ret = 16
    THEN IF h.loopCounter = 0
         THEN [h EXCEPT !.m = [g EXCEPT !.thrown = "Invalid Data Exception"]]
         ELSE RepeatCase(h, g, 2, 3, Load(g.codeList, h.loopCounter - 1), codeArraySize)
    ELSE [h EXCEPT !.m = [g EXCEPT !.codeList = Store(g.codeList, h.loopCounter, g.ret)],
                   !.loopCounter = h.loopCounter + 1]

\* One turn of the second while loop.
CodeListStep(h, codeLengthTree, codeArraySize) ==
    With(GetNextSymbol(codeLengthTree, h.m), LAMBDA g :
        IF g.thrown # "" THEN [h EXCEPT !.m = g] ELSE CodeListCase(h, g, codeArraySize))

\* At most n turns of it: each turn that goes on adds to loopCounter.
RECURSIVE CodeListLoop(_, _, _, _)
CodeListLoop(h, codeLengthTree, codeArraySize, n) ==
    IF h.m.thrown # "" \/ h.loopCounter >= codeArraySize \/ n <= 0 THEN h
    ELSE IF n = 1 THEN CodeListStep(h, codeLengthTree, codeArraySize)
    ELSE CodeListLoop(CodeListLoop(h, codeLengthTree, codeArraySize, n \div 2),
                      codeLengthTree, codeArraySize, n - (n \div 2))

\* The two slices of codeList, each padded with zeros.
LiteralTreeCodeLength(m, literalLengthCodeCount) ==
    [i \in 0..(MaxLiteralTreeElements - 1) |->
        IF i < literalLengthCodeCount THEN Load(m.codeList, i) ELSE 0]

DistanceTreeCodeLength(m, literalLengthCodeCount, distanceCodeCount) ==
    [i \in 0..(MaxDistTreeElements - 1) |->
        IF i < distanceCodeCount THEN Load(m.codeList, literalLengthCodeCount + i) ELSE 0]

\* MakeTrees without the test for an end-of-block code.
MakeTreesUntested(m, literalTreeCodeLength, distanceTreeCodeLength) ==
    With(HuffmanTree(literalTreeCodeLength), LAMBDA lit :
    IF lit.thrown # "" THEN [m EXCEPT !.thrown = lit.thrown]
    ELSE With(HuffmanTree(distanceTreeCodeLength), LAMBDA dist :
         IF dist.thrown # ""
         THEN [m EXCEPT !.literalLengthTree = lit, !.thrown = dist.thrown]
         ELSE [m EXCEPT !.literalLengthTree = lit, !.distanceTree = dist,
                        !.ret = TRUE]))

\* The end of DecodeDynamicBlockHeader: the test for an end-of-block code and
\* the two trees; the first is in place when the second throws.
MakeTrees(m, literalTreeCodeLength, distanceTreeCodeLength) ==
    IF literalTreeCodeLength[EndOfBlockCode] = 0
    THEN [m EXCEPT !.thrown = "Invalid Data Exception"]
    ELSE With(HuffmanTree(literalTreeCodeLength), LAMBDA lit :
         IF lit.thrown # "" THEN [m EXCEPT !.thrown = lit.thrown]
         ELSE With(HuffmanTree(distanceTreeCodeLength), LAMBDA dist :
              IF dist.thrown # ""
              THEN [m EXCEPT !.literalLengthTree = lit, !.thrown = dist.thrown]
              ELSE [m EXCEPT !.literalLengthTree = lit, !.distanceTree = dist,
                             !.ret = TRUE]))

\* DecodeDynamicBlockHeader from `new HuffmanTree(this._codeLengthTreeCodeLength)` on.
CodeLists(m, literalLengthCodeCount, distanceCodeCount) ==
    With(HuffmanTree(m.codeLengthTreeCodeLength), LAMBDA codeLengthTree :
        IF codeLengthTree.thrown # "" THEN [m EXCEPT !.thrown = codeLengthTree.thrown]
        ELSE With(CodeListLoop([m |-> m, loopCounter |-> 0], codeLengthTree,
                               literalLengthCodeCount + distanceCodeCount,
                               literalLengthCodeCount + distanceCodeCount), LAMBDA h :
                 IF h.m.thrown # "" THEN h.m
                 ELSE MakeTrees(h.m,
                                LiteralTreeCodeLength(h.m, literalLengthCodeCount),
                                DistanceTreeCodeLength(h.m, literalLengthCodeCount,
                                                       distanceCodeCount))))

DecodeDynamicBlockHeader(m) ==
    With(GetBits(m, 5), LAMBDA g1 :
    With(GetBits(g1, 5), LAMBDA g2 :
    With(GetBits(g2, 4), LAMBDA g3 :
    With(CodeLengthCodesLoop(g3, 0, (g3.ret + 4) - 1), LAMBDA m1 :
        CodeLists([m1 EXCEPT !.codeLengthTreeCodeLength =
                                 ClearCodeLengthCodes(m1.codeLengthTreeCodeLength,
                                                      g3.ret + 4)],
                  g1.ret + 257, g2.ret + 1)))))

\* ReadBlockType as it would be were the block type one bit wide.
ReadBlockTypeOneBit(m) == With(GetBits(m, 1), LAMBDA b : [b EXCEPT !.state = b.ret])

\* The case ReadingBlockType of the switch of Decode.
ReadBlockType(m) == With(GetBits(m, 2), LAMBDA b : [b EXCEPT !.state = b.ret])

\* The case ReadingFinalBit, which falls through to ReadingBlockType.
ReadFinalBit(m) ==
    With(GetBits(m, 1), LAMBDA a :
        ReadBlockType([a EXCEPT !.bfinal = a.ret, !.state = ReadingBlockType]))

\* The switch of Decode with the loop around it: a `continue` is the switch
\* taken again.
RECURSIVE DecodeSwitch(_)
DecodeSwitch(m) ==
    IF m.state = ReadingFinalBit THEN DecodeSwitch(ReadFinalBit(m))
    ELSE IF m.state = ReadingBlockType THEN DecodeSwitch(ReadBlockType(m))
    ELSE IF m.state = ReadingStatic
    THEN DecodeSwitch([m EXCEPT !.literalLengthTree = StaticLiteralLengthTree,
                                !.distanceTree = StaticDistanceTree,
                                !.isDynamic = FALSE,
                                !.state = DecodingBlock])
    ELSE IF m.state = ReadingDynamic
    THEN Then(DecodeDynamicBlockHeader(m), LAMBDA h :
             DecodeBlock([h EXCEPT !.isDynamic = TRUE]))
    ELSE IF m.state = DecodingBlock
    THEN DecodeBlock(m)
    ELSE IF m.state = ReadingUncompressed
    THEN Then(DecodeUncompressedBlock(m), LAMBDA u :
             [u EXCEPT !.end_of_block_code_seen = TRUE])
    ELSE [m EXCEPT !.thrown = "Unknown Block Type"]

\* Decode(): m.ret is its result.
Decode(m) ==
    Then(DecodeSwitch([m EXCEPT !.end_of_block_code_seen = FALSE, !.ret = FALSE]), LAMBDA d :
        IF d.end_of_block_code_seen /\ d.bfinal # 0 THEN [d EXCEPT !.state = Done] ELSE d)

\* The checksum callback ZLibInflate hands to the engine: up to four bytes of
\* the producer make `need`, most significant first; the first is shifted by
\* 24 and so may set the sign bit.
Need(it) ==
      (IF Len(it) >= 1 THEN Shl(it[1], 24) ELSE 0)
    + (IF Len(it) >= 2 THEN it[2] * 65536 ELSE 0)
    + (IF Len(it) >= 3 THEN it[3] * 256 ELSE 0)
    + (IF Len(it) >= 4 THEN it[4] ELSE 0)

VerifyAdler(m, adler32) ==
    [m EXCEPT !.iterator = SubSeq(m.iterator, 5, Len(m.iterator)),
              !.verified = Append(m.verified, adler32),
              !.thrown = IF Need(m.iterator) # adler32 THEN "Invalid Adler-32 checksum"
                         ELSE ""]

\* The end of next(), after its loop.
Finish(m) ==
    Then(IF m.wrapper = "zlib" THEN VerifyAdler(m, AdlerValue(m.s1, m.s2)) ELSE m, LAMBDA v :
        [v EXCEPT !.current = -1, !.ret = [done |-> TRUE, value |-> Undefined]])

\* Take handing on the newest byte of the window, not the oldest unread one.
TakeNewest(m) ==
    [m EXCEPT !.current = (m.end - 1) % WindowSize,
              !.lengthDecompressed = m.lengthDecompressed - 1,
              !.ret = [done  |-> FALSE,
                       value |-> WindowLoad(m.window, (m.end - 1) % WindowSize)]]

\* PassThrough that hands the byte on without writing it through the window.
PassThroughUnwritten(m) ==
    IF m.iterator = <<>> THEN [m EXCEPT !.thrown = "End Of Stream Exception"]
    ELSE [m EXCEPT !.iterator = Tail(m.iterator),
                   !.lengthUncompressed = m.lengthUncompressed - 1,
                   !.ret = [done |-> FALSE, value |-> Head(m.iterator)]]

\* The two returns inside the loop of next().
Take(m) ==
    [m EXCEPT !.current = (m.end - m.lengthDecompressed) % WindowSize,
              !.lengthDecompressed = m.lengthDecompressed - 1,
              !.ret = [done  |-> FALSE,
                       value |-> WindowLoad(m.window,
                                            (m.end - m.lengthDecompressed) % WindowSize)]]

PassThrough(m) ==
    IF m.iterator = <<>> THEN [m EXCEPT !.thrown = "End Of Stream Exception"]
    ELSE [m EXCEPT !.iterator = Tail(m.iterator),
                   !.current = m.end,
                   !.window = WindowStore(m.window, m.end, Head(m.iterator)),
                   !.end = (m.end + 1) % WindowSize,
                   !.lengthUncompressed = m.lengthUncompressed - 1,
                   !.s1 = JsAdd(m.s1, Head(m.iterator)),
                   !.s2 = WideAdd(m.s2, JsAdd(m.s1, Head(m.iterator))),
                   !.written = Append(m.written, Head(m.iterator)),
                   !.ret = [done |-> FALSE, value |-> Head(m.iterator)]]

\* next(): the do..while, a turn of which either returns or ends with the
\* test `State.Done != this._state && this.Decode()`.
RECURSIVE InflateNext(_)
InflateNext(m) ==
    IF 0 < m.lengthDecompressed THEN Take(m)
    ELSE IF 0 < m.lengthUncompressed THEN PassThrough(m)
    ELSE IF m.state = Done
    THEN Finish([m EXCEPT !.s1 = ModBase(m.s1), !.s2 = WideRem(m.s2, BASE)])
    ELSE Then(Decode([m EXCEPT !.s1 = ModBase(m.s1), !.s2 = WideRem(m.s2, BASE)]), LAMBDA d :
             IF d.ret THEN InflateNext(d) ELSE Finish(d))

\* new ZLibInflate(iterator) up to the call of super: the producer it leaves
\* and what it threw.  Inflate has no member endOfStreamEx, so the two
\* `throw Inflate.endOfStreamEx` throw the value undefined; the model names
\* that failure by the expression thrown.
ZLibInflate(it) ==
    IF it = <<>> THEN [iterator |-> it, thrown |-> "Inflate.endOfStreamEx"]
    ELSE LET cm == Head(it)
         IN  IF cm % 16 # 8
             THEN [iterator |-> Tail(it), thrown |-> "unknown compression method"]
             ELSE IF (cm \div 16) + 8 > 15
             THEN [iterator |-> Tail(it), thrown |-> "invalid window size"]
             ELSE IF Tail(it) = <<>>
             THEN [iterator |-> Tail(it), thrown |-> "Inflate.endOfStreamEx"]
             ELSE IF (cm * 256 + Head(Tail(it))) % 31 # 0
             THEN [iterator |-> Tail(Tail(it)), thrown |-> "incorrect header check"]
             ELSE [iterator |-> Tail(Tail(it)), thrown |-> ""]

-----------------------------------------------------------------------------
(* The state machine                                                        *)

\* The value of a field that holds no tree yet.
NoTree == [codeLengthArray |-> <<>>, maxCodeLength |-> 0, tableBits |-> 0, tableMask |-> 0,
           table |-> <<>>, left |-> <<>>, right |-> <<>>, avail |-> 0, thrown |-> ""]

NoResult == [done |-> FALSE, value |-> Undefined, thrown |-> ""]

\* The fields of the engine and of its producer, as the operations take them.
Engine ==
    [wrapper |-> wrapper, iterator |-> iterator, bitBuffer |-> bitBuffer,
     bitsInBuffer |-> bitsInBuffer, state |-> state, bfinal |-> bfinal,
     isDynamic |-> isDynamic, end_of_block_code_seen |-> end_of_block_code_seen,
     literalLengthTree |-> literalLengthTree, distanceTree |-> distanceTree,
     window |-> window, end |-> end, current |-> current,
     lengthDecompressed |-> lengthDecompressed, lengthUncompressed |-> lengthUncompressed,
     s1 |-> s1, s2 |-> s2, codeList |-> codeList,
     codeLengthTreeCodeLength |-> codeLengthTreeCodeLength, verified |-> verified,
     written |-> written, ret |-> Undefined, thrown |-> ""]

\* The fields as an operation left them.
Commit(m) ==
    /\ iterator' = m.iterator
    /\ bitBuffer' = m.bitBuffer
    /\ bitsInBuffer' = m.bitsInBuffer
    /\ state' = m.state
    /\ bfinal' = m.bfinal
    /\ isDynamic' = m.isDynamic
    /\ end_of_block_code_seen' = m.end_of_block_code_seen
    /\ literalLengthTree' = m.literalLengthTree
    /\ distanceTree' = m.distanceTree
    /\ window' = m.window
    /\ end' = m.end
    /\ current' = m.current
    /\ lengthDecompressed' = m.lengthDecompressed
    /\ lengthUncompressed' = m.lengthUncompressed
    /\ s1' = m.s1
    /\ s2' = m.s2
    /\ codeList' = m.codeList
    /\ codeLengthTreeCodeLength' = m.codeLengthTreeCodeLength
    /\ verified' = m.verified
    /\ written' = m.written

\* The fields of an engine made over a producer that is to yield the bytes
\* of src, after n calls of Write(fill), each followed by the call of next()
\* that hands the byte on: the window holds the run, the sums have grown by
\* it (next() reduces them only when it finds nothing to hand on).  With
\* n = 0 these are the initialisers of the class Inflate.
Started(src, n, fill) ==
    /\ source = src
    /\ iterator = src
    /\ bitBuffer = 0
    /\ bitsInBuffer = 0
    /\ state = ReadingFinalBit
    /\ bfinal = Undefined
    /\ isDynamic = FALSE
    /\ end_of_block_code_seen = FALSE
    /\ literalLengthTree = NoTree
    /\ distanceTree = NoTree
    /\ window = [run |-> IF n < WindowSize THEN n ELSE WindowSize, fill |-> fill,
                 slots |-> <<>>]
    /\ end = n % WindowSize
    /\ current = IF n = 0 THEN 0 ELSE (n - 1) % WindowSize
    /\ lengthDecompressed = 0
    /\ lengthUncompressed = 0
    /\ s1 = 1 + n * fill
    /\ s2 = Wide(n + fill * ((n * (n + 1)) \div 2))
    /\ codeList = <<>>
    /\ codeLengthTreeCodeLength = <<>>
    /\ verified = <<>>
    /\ result = NoResult
    /\ yielded = <<>>
    /\ written = <<>>
    /\ calls = 0
    /\ lastOp = [op |-> "none", a |-> 0, b |-> 0]

\* new Inflate(iterator)
NewInflate ==
    /\ phase = "new"
    /\ phase' = "ready"
    /\ wrapper' = "inflate"
    /\ lastOp' = [op |-> "Inflate", a |-> 0, b |-> 0]
    /\ UNCHANGED <<iterator, bitBuffer, bitsInBuffer, state, bfinal, isDynamic,
                   end_of_block_code_seen, literalLengthTree, distanceTree, window, end,
                   current, lengthDecompressed, lengthUncompressed, s1, s2, codeList,
                   codeLengthTreeCodeLength, verified, result, source, yielded, written,
                   calls>>

\* new ZLibInflate(iterator): the engine exists only if nothing was thrown.
NewZLibInflate ==
    /\ phase = "new"
    /\ LET z == ZLibInflate(iterator)
       IN  /\ phase' = IF z.thrown = "" THEN "ready" ELSE "failed"
           /\ iterator' = z.iterator
           /\ result' = [NoResult EXCEPT !.thrown = z.thrown]
    /\ wrapper' = "zlib"
    /\ lastOp' = [op |-> "ZLibInflate", a |-> 0, b |-> 0]
    /\ UNCHANGED <<bitBuffer, bitsInBuffer, state, bfinal, isDynamic,
                   end_of_block_code_seen, literalLengthTree, distanceTree, window, end,
                   current, lengthDecompressed, lengthUncompressed, s1, s2, codeList,
                   codeLengthTreeCodeLength, verified, source, yielded, written, calls>>

\* The number of calls followed on one engine.
MaxCalls == 7

\* What a call of next() that ended with the record m leaves and hands back.
Returned(m) ==
    /\ Commit(m)
    /\ result' = IF m.thrown # "" THEN [NoResult EXCEPT !.thrown = m.thrown]
                 ELSE [done |-> m.ret.done, value |-> m.ret.value, thrown |-> ""]
    /\ yielded' = IF m.thrown = "" /\ ~m.ret.done THEN Append(yielded, m.ret.value)
                  ELSE yielded

\* One call of next() on the engine, whatever it returns or throws.
Pull ==
    /\ phase = "ready"
    /\ calls < MaxCalls
    /\ Returned(InflateNext(Engine))
    /\ calls' = calls + 1
    /\ lastOp' = [op |-> "next", a |-> 0, b |-> 0]
    /\ UNCHANGED <<phase, wrapper, source>>

-----------------------------------------------------------------------------
(* The streams the producer is given                                        *)

\* The n bits of v, most significant first.
MsbBits(v, n) == [i \in 1..n |-> (v \div 2 ^ (n - i)) % 2]

\* The fixed code of RFC 1951 for a literal byte, and for a sequence of them.
FixedCode(b) == IF b < 144 THEN MsbBits(48 + b, 8) ELSE MsbBits(400 + (b - 144), 9)

RECURSIVE FixedCodes(_)
FixedCodes(B) == IF B = <<>> THEN <<>> ELSE FixedCode(Head(B)) \o FixedCodes(Tail(B))

BitAt(bits, i) == IF i <= Len(bits) THEN bits[i] ELSE 0

\* Bits packed into bytes, the first bit the least significant of the first byte.
PackBytes(bits) ==
    [k \in 1..((Len(bits) + 7) \div 8) |->
          BitAt(bits, 8 * k - 7)      + 2 * BitAt(bits, 8 * k - 6)
        + 4 * BitAt(bits, 8 * k - 5)  + 8 * BitAt(bits, 8 * k - 4)
        + 16 * BitAt(bits, 8 * k - 3) + 32 * BitAt(bits, 8 * k - 2)
        + 64 * BitAt(bits, 8 * k - 1) + 128 * BitAt(bits, 8 * k)]

\* One final block with fixed codes: BFINAL = 1, BTYPE = 01, the codes of B,
\* the end-of-block code (seven zero bits).
FixedStream(B) == PackBytes(<<1, 1, 0>> \o FixedCodes(B) \o <<0, 0, 0, 0, 0, 0, 0>>)

\* One stored block holding B: the header byte, LEN, NLEN, the bytes.
StoredStream(header, B) ==
    <<header, Len(B) % 256, Len(B) \div 256, 255 - (Len(B) % 256), 255 - (Len(B) \div 256)>>
        \o B

\* The Adler-32 of RFC 1950 of a byte sequence, as <<s1, s2>>.
RECURSIVE RefAdlerFrom(_, _)
RefAdlerFrom(r, B) ==
    IF B = <<>> THEN r
    ELSE RefAdlerFrom(<<(r[1] + Head(B)) % 65521, (r[2] + r[1] + Head(B)) % 65521>>, Tail(B))

RefAdler(B) == RefAdlerFrom(<<1, 0>>, B)

\* Its four bytes, most significant first.
AdlerTrailer(B) ==
    <<RefAdler(B)[2] \div 256, RefAdler(B)[2] % 256,
      RefAdler(B)[1] \div 256, RefAdler(B)[1] % 256>>

\* A ZLIB stream: CMF = 0x78, FLG = 0x01, the DEFLATE stream of B, the trailer.
ZLibStream(deflate, B) == <<120, 1>> \o deflate \o AdlerTrailer(B)

\* The byte sequences the streams of the model encode.
Texts == {<<>>, <<65>>, <<97>>, <<0>>, <<255>>, <<65, 66>>, <<97, 97, 97>>}

FixedStreams == {FixedStream(B) : B \in Texts}

StoredStreams == {StoredStream(1, B) : B \in Texts}

ZLibStreams == {ZLibStream(FixedStream(B), B) : B \in Texts}
                   \cup {ZLibStream(StoredStream(1, B), B) : B \in Texts}

\* The value v in n bits, the least significant first.
NumberBits(v, n) == [k \in 1..n |-> (v \div (2 ^ (k - 1))) % 2]

\* The code lengths the dynamic headers below give to the symbols 16, 17, 18,
\* 0 and 8 of the code length alphabet (every other symbol has none), and the
\* code of a symbol: with one code of each length, the code of length n is
\* n - 1 ones and a zero.
HeaderCodeLength == (16 :> 3) @@ (17 :> 4) @@ (18 :> 1) @@ (0 :> 5) @@ (8 :> 2)

LengthCode(s) == [k \in 1..HeaderCodeLength[s] |-> IF k < HeaderCodeLength[s] THEN 1 ELSE 0]

\* HLIT, HDIST, HCLEN = 1 (five code lengths follow) and the lengths of the
\* symbols 16, 17, 18, 0, 8, in the order of s_codeOrder.
DynamicHeaderBits(hlit, hdist) ==
    NumberBits(hlit - 257, 5) \o NumberBits(hdist - 1, 5) \o NumberBits(1, 4)
        \o NumberBits(HeaderCodeLength[16], 3) \o NumberBits(HeaderCodeLength[17], 3)
        \o NumberBits(HeaderCodeLength[18], 3) \o NumberBits(HeaderCodeLength[0], 3)
        \o NumberBits(HeaderCodeLength[8], 3)

\* The symbols 16, 17 and 18 with a repeat count of n.
Repeat16(n) == LengthCode(16) \o NumberBits(n - 3, 2)
Repeat17(n) == LengthCode(17) \o NumberBits(n - 3, 3)
Repeat18(n) == LengthCode(18) \o NumberBits(n - 11, 7)

\* BFINAL = 1, BTYPE = 10.
DynamicBlockBits == <<1, 0, 1>>

\* A dynamic header whose first code length symbol is 16.
SixteenFirst == PackBytes(DynamicBlockBits \o DynamicHeaderBits(257, 1) \o Repeat16(3))

\* Dynamic headers of 258 code lengths in which a repeat passes the 258th:
\* 138 zeros and 138 more; 257 zeros and 3 more; 256 entries and 3 more.
Overrun18 ==
    PackBytes(DynamicBlockBits \o DynamicHeaderBits(257, 1) \o Repeat18(138) \o Repeat18(138))

Overrun17 ==
    PackBytes(DynamicBlockBits \o DynamicHeaderBits(257, 1) \o Repeat18(138)
                  \o Repeat18(119) \o Repeat17(3))

Overrun16 ==
    PackBytes(DynamicBlockBits \o DynamicHeaderBits(257, 1) \o Repeat18(138)
                  \o Repeat18(117) \o LengthCode(8) \o Repeat16(3))

\* A dynamic header of 257 + 5 code lengths: 8 and six more, ten zeros, 138
\* and 101 zeros, 8 for the symbol 256, five zeros for the distances.
RepeatsHeader ==
    PackBytes(DynamicBlockBits \o DynamicHeaderBits(257, 5) \o LengthCode(8) \o Repeat16(6)
                  \o Repeat17(10) \o Repeat18(138) \o Repeat18(101) \o LengthCode(8)
                  \o Repeat17(5))

\* The code lengths that header holds.
RepeatsCodeList == [i \in 0..261 |-> IF i <= 6 \/ i = 256 THEN 8 ELSE 0]

\* A dynamic header of 257 + 3 code lengths that gives the symbol 256 no code
\* and each of the three distance codes the length 8, and after it, where the
\* engine reads on once it has thrown, a header of 257 + 1 code lengths that
\* gives the length 8 to the symbols 0 and 256 and no code to the distance.
MissingEndHeader ==
    PackBytes(DynamicBlockBits \o DynamicHeaderBits(257, 3) \o LengthCode(8) \o Repeat18(138)
                  \o Repeat18(117) \o LengthCode(0) \o LengthCode(8) \o LengthCode(8)
                  \o LengthCode(8)
                  \o DynamicHeaderBits(257, 1) \o LengthCode(8) \o Repeat18(138)
                  \o Repeat18(117) \o LengthCode(8) \o LengthCode(0))

\* One final block with fixed codes that holds the 8-bit code 11000110 of the
\* literal/length symbol 286.
InvalidLengthStream == PackBytes(<<1, 1, 0>> \o MsbBits(198, 8))

\* One final block with fixed codes: the byte 65, the code 0000001 of the
\* length symbol 257, the distance code 30, the end-of-block code.
DistanceThirtyStream ==
    PackBytes(<<1, 1, 0>> \o FixedCode(65) \o MsbBits(1, 7) \o MsbBits(30, 5)
                  \o <<0, 0, 0, 0, 0, 0, 0>>)

InvalidCodeStreams == {InvalidLengthStream, DistanceThirtyStream}

\* One final dynamic block: HLIT = 257, HDIST = 1, HCLEN = 18; the symbols 18,
\* 1 and 2 of the code length alphabet have the lengths 1, 2 and 3; the code
\* lengths are 255 zeros (18 twice: 138 and 117), 1 for the literal 255, 2 for
\* the symbol 256 and 1 for the distance code 0.  The code of the literal 255
\* is the bit 0: the two bits left in the header's last byte and the 726
\* zero bytes that follow are 5810 codes of that literal.
LiteralRunStream ==
    <<5, 192, 129, 0, 0, 0, 0, 192, 32, 127, 234, 22>> \o [k \in 1..726 |-> 0]

DynamicHeaders ==
    {SixteenFirst, Overrun18, Overrun17, Overrun16, RepeatsHeader, MissingEndHeader}

\* Other inputs: nothing, cut or damaged stored blocks, a block that is not
\* final, the reserved block type, a dynamic block cut short, ZLIB headers
\* that fail and one with FDICT set, and two dynamic blocks whose header the
\* engine reads to its end.
OtherStreams ==
    { <<>>, <<1>>, <<1, 1, 0>>, <<1, 1, 0, 254, 255>>, <<1, 1, 0, 255, 255, 65>>,
      <<1, 2, 0, 253, 255, 65>>, <<0, 1, 0, 254, 255, 65, 1, 0, 0, 255, 255>>,
      <<7>>, <<6, 1>>, <<5>>, <<75>>, <<75, 4>>,
      <<120>>, <<120, 0>>, <<136, 28>>, <<7, 1>>, <<120, 32>>,
      <<120, 32, 1, 1, 0, 254, 255, 65, 0, 66, 0, 66>>,
      <<5, 32, 4, 33, 62, 200, 229, 67, 37, 52>>,
      <<5, 32, 128, 32, 52, 243, 15, 118, 4, 63>> }

Sources == FixedStreams \cup StoredStreams \cup ZLibStreams \cup OtherStreams \cup DynamicHeaders
               \cup InvalidCodeStreams \cup {LiteralRunStream}

Init ==
    /\ phase = "new"
    /\ wrapper = "none"
    /\ \E src \in Sources : Started(src, 0, 0)

Next == NewInflate \/ NewZLibInflate \/ Pull

Spec == Init /\ [][Next]_vars

-----------------------------------------------------------------------------
(* The ZLIB header: the constructor of ZLibInflate over every producer of   *)
(* at most two bytes, and of two bytes and one more.                        *)

Byte == 0..255

\* The producer of the first n bytes of cmf, flg, 1.
HeaderSource(n, cmf, flg) == SubSeq(<<cmf, flg, 1>>, 1, n)

InitHeader ==
    /\ phase = "new"
    /\ wrapper = "none"
    /\ \E n \in 0..3, cmf \in Byte, flg \in Byte :
          /\ n < 1 => cmf = 0
          /\ n < 2 => flg = 0
          /\ Started(HeaderSource(n, cmf, flg), 0, 0)

NextHeader == NewZLibInflate

SpecHeader == InitHeader /\ [][NextHeader]_vars

-----------------------------------------------------------------------------
(* The window: the public methods Write and WriteLengthDistance called on   *)
(* an engine as DecodeBlock calls them, and next().                         *)

\* The number of calls followed on one engine.
MaxWindowCalls == 3

\* The bytes written before the first state, and how many of them: none,
\* enough to leave `end` 268 or 2 slots below the top of the window, and two
\* more than the window holds.
InitialFill == 2
InitialRuns == {0, WindowSize - 268, WindowSize - 2, WindowSize + 2}

WriteBytes == {65, 66}
CopyLengths == {1, 3, 258}
\* The distances: short ones, and the whole window back.
CopyDistances == {1, 2, WindowSize}

InitWindow ==
    /\ phase = "ready"
    /\ wrapper = "inflate"
    /\ \E n \in InitialRuns : Started(<<>>, n, InitialFill)

\* What a call that returns nothing leaves.
Called(m, op, a, b) ==
    /\ Commit(m)
    /\ result' = NoResult
    /\ calls' = calls + 1
    /\ lastOp' = [op |-> op, a |-> a, b |-> b]
    /\ UNCHANGED <<phase, wrapper, source, yielded>>

\* Write(b), called as DecodeBlock calls it: with more than 258 bytes free.
WriteCall ==
    /\ phase = "ready"
    /\ calls < MaxWindowCalls
    /\ WindowSize - lengthDecompressed > 258
    /\ \E b \in WriteBytes : Called(Write(Engine, b), "Write", b, 0)

\* WriteLengthDistance(length, distance), called likewise.
WriteLengthDistanceCall ==
    /\ phase = "ready"
    /\ calls < MaxWindowCalls
    /\ WindowSize - lengthDecompressed > 258
    /\ \E length \in CopyLengths, distance \in CopyDistances :
          Called(WriteLengthDistance(Engine, length, distance),
                 "WriteLengthDistance", length, distance)

\* next(), as in Pull, within the calls followed here.
WindowPull ==
    /\ phase = "ready"
    /\ calls < MaxWindowCalls
    /\ Returned(InflateNext(Engine))
    /\ calls' = calls + 1
    /\ lastOp' = [op |-> "next", a |-> 0, b |-> 0]
    /\ UNCHANGED <<phase, wrapper, source>>

NextWindow == WriteCall \/ WriteLengthDistanceCall \/ WindowPull

SpecWindow == InitWindow /\ [][NextWindow]_vars
-----------------------------------------------------------------------------
(* The Huffman table: the constructor of HuffmanTree on vectors of code     *)
(* lengths, and GetNextSymbol on an InputBuffer over a producer that holds  *)
(* the code of one symbol.                                                  *)

\* The number of GetNextSymbol calls followed on one table.
MaxSymbolCalls == 3

\* The Uint8Array of n code lengths that starts with s and goes on with 0.
Lengths(n, s) == [i \in 0..(n - 1) |-> IF i < Len(s) THEN s[i + 1] ELSE 0]

\* The vectors given to the constructor: the two static ones; for the
\* alphabet of the code lengths, a short code and one with codes longer than
\* the 7 bits of the table; for the literal/length alphabet, a code with
\* lengths 1 to 10 that gives its two longest codes to the symbols 256 and
\* 287.  Each of these is a complete prefix code.  The last two vectors are
\* prefix codes that are not complete: one code of each length from 8 to 15,
\* and the single code of one bit, given to the symbol 1.
CodeLengthVectors ==
    { GetStaticLiteralTreeLength,
      GetStaticDistanceTreeLength,
      Lengths(NumberOfCodeLengthTreeElements, <<1, 2, 3, 3>>),
      Lengths(NumberOfCodeLengthTreeElements, <<1, 2, 3, 4, 5, 6, 7, 8, 8>>),
      Lengths(NumberOfCodeLengthTreeElements, <<8, 9, 10, 11, 12, 13, 14, 15>>),
      Lengths(NumberOfCodeLengthTreeElements, <<0, 1>>),
      [i \in 0..(MaxLiteralTreeElements - 1) |->
          IF i < 9 THEN i + 1 ELSE IF i \in {256, 287} THEN 10 ELSE 0] }

\* RFC 1951, 3.2.2: the number of codes of length b, none of length 0.
RefCount(cl, b) == IF b = 0 THEN 0 ELSE Cardinality({i \in DOMAIN cl : cl[i] = b})

\* The smallest code of length b: next_code[b] = (next_code[b-1] + count[b-1]) << 1.
RECURSIVE RefNextCode(_, _)
RefNextCode(cl, b) == IF b = 0 THEN 0 ELSE 2 * (RefNextCode(cl, b - 1) + RefCount(cl, b - 1))

\* The canonical code of the symbol i: codes of one length go to the symbols
\* in their order.
RefCode(cl, i) == RefNextCode(cl, cl[i]) + Cardinality({j \in DOMAIN cl : j < i /\ cl[j] = cl[i]})

\* The number a sequence of bits makes, the first bit the least significant.
RECURSIVE LsbValue(_)
LsbValue(bits) == IF bits = <<>> THEN 0 ELSE Head(bits) + 2 * LsbValue(Tail(bits))

\* The canonical code of i with its cl[i] bits in reverse order.
RefReversedCode(cl, i) == LsbValue(MsbBits(RefCode(cl, i), cl[i]))

\* A producer that holds the code of the symbol i, its most significant bit
\* first as DEFLATE sends it, then zero bits to the end of the byte and one
\* more byte.
SymbolSource(cl, i) == PackBytes(MsbBits(RefCode(cl, i), cl[i])) \o <<0>>

\* The symbols whose codes the producers hold: the ends of each run of equal
\* lengths of the static code, and a few within.
CodedSymbols == {0, 1, 2, 3, 7, 8, 65, 143, 144, 255, 256, 257, 279, 280, 287}

SymbolSources ==
    UNION { {SymbolSource(cl, i) : i \in {j \in CodedSymbols \cap DOMAIN cl : cl[j] > 0}} :
            cl \in CodeLengthVectors }

\* A producer of more bytes than the bit buffer has room for.
LongSource == <<255, 255, 255, 255, 255, 255, 255, 255>>

\* An InputBuffer over a producer of one symbol, or over the long one; no
\* table yet.
InitHuffman ==
    /\ phase = "new"
    /\ wrapper = "none"
    /\ \E src \in SymbolSources \cup {LongSource} : Started(src, 0, 0)

\* new HuffmanTree(codeLengths); the table exists only if nothing was thrown.
NewHuffmanTree ==
    /\ phase = "new"
    /\ \E cl \in CodeLengthVectors : \E t \in {HuffmanTree(cl)} :
          /\ literalLengthTree' = t
          /\ phase' = IF t.thrown = "" THEN "ready" ELSE "failed"
          /\ result' = [NoResult EXCEPT !.thrown = t.thrown]
    /\ wrapper' = "table"
    /\ lastOp' = [op |-> "HuffmanTree", a |-> 0, b |-> 0]
    /\ UNCHANGED <<iterator, bitBuffer, bitsInBuffer, state, bfinal, isDynamic,
                   end_of_block_code_seen, distanceTree, window, end, current,
                   lengthDecompressed, lengthUncompressed, s1, s2, codeList,
                   codeLengthTreeCodeLength, verified, source, yielded, written, calls>>

\* tree.GetNextSymbol(input), whatever it returns or throws.
GetNextSymbolCall ==
    /\ phase = "ready"
    /\ wrapper = "table"
    /\ calls < MaxSymbolCalls
    /\ \E m \in {GetNextSymbol(literalLengthTree, Engine)} :
          /\ Commit(m)
          /\ result' = IF m.thrown # "" THEN [NoResult EXCEPT !.thrown = m.thrown]
                       ELSE [done |-> FALSE, value |-> m.ret, thrown |-> ""]
    /\ calls' = calls + 1
    /\ lastOp' = [op |-> "GetNextSymbol", a |-> 0, b |-> 0]
    /\ UNCHANGED <<phase, wrapper, source, yielded>>

NextHuffman == NewHuffmanTree \/ GetNextSymbolCall

SpecHuffman == InitHuffman /\ [][NextHuffman]_vars

-----------------------------------------------------------------------------
(* BitReverse: the static method called on every code of every width.       *)

\* The number of BitReverse calls followed on one code.
MaxReverseCalls == 2

\* The widths of the codes handed to BitReverse.
Widths == 1..16

\* A code of one of the widths in hand (lastOp.a, lastOp.b), nothing called.
InitReverse ==
    /\ phase = "new"
    /\ wrapper = "none"
    /\ bitBuffer = 0 /\ bitsInBuffer = 0 /\ state = ReadingFinalBit /\ bfinal = Undefined
    /\ isDynamic = FALSE /\ end_of_block_code_seen = FALSE
    /\ literalLengthTree = NoTree /\ distanceTree = NoTree
    /\ window = [run |-> 0, fill |-> 0, slots |-> <<>>]
    /\ end = 0 /\ current = 0 /\ lengthDecompressed = 0 /\ lengthUncompressed = 0
    /\ s1 = 1 /\ s2 = Wide(0) /\ codeList = <<>> /\ codeLengthTreeCodeLength = <<>>
    /\ verified = <<>> /\ result = NoResult
    /\ source = <<>> /\ iterator = <<>> /\ yielded = <<>> /\ written = <<>> /\ calls = 0
    /\ \E length \in Widths : \E code \in 0..(2 ^ length - 1) :
          lastOp = [op |-> "none", a |-> code, b |-> length]

\* HuffmanTree.BitReverse(code, length), called on the code in hand and then
\* on what the call before returned; a static method, it leaves every field
\* alone.
BitReverseCall ==
    /\ wrapper = "none"
    /\ lastOp.op \in {"none", "BitReverse"}
    /\ lastOp.b \in Widths
    /\ calls < MaxReverseCalls
    /\ \E code \in {IF calls = 0 THEN lastOp.a ELSE result.value} :
          /\ result' = [NoResult EXCEPT !.value = BitReverse(code, lastOp.b)]
          /\ lastOp' = [op |-> "BitReverse", a |-> code, b |-> lastOp.b]
    /\ calls' = calls + 1
    /\ UNCHANGED <<phase, wrapper, iterator, bitBuffer, bitsInBuffer, state, bfinal,
                   isDynamic, end_of_block_code_seen, literalLengthTree, distanceTree,
                   window, end, current, lengthDecompressed, lengthUncompressed, s1, s2,
                   codeList, codeLengthTreeCodeLength, verified, source, yielded, written>>

NextReverse == BitReverseCall

SpecReverse == InitReverse /\ [][NextReverse]_vars

-----------------------------------------------------------------------------
(* The window nearly full: the same calls on an engine whose window holds   *)
(* as many bytes not yet handed on as DecodeBlock lets it hold.             *)

\* The bytes pending when the calls start: the two largest numbers that
\* leave more than 258 bytes free.
InitialPending == {WindowSize - 260, WindowSize - 259}

\* The fields after n calls of Write(fill) of which the first n - k were each
\* followed by a call of next(): the last k bytes are pending.
Filled(n, k, fill) ==
    /\ source = <<>>
    /\ iterator = <<>>
    /\ bitBuffer = 0
    /\ bitsInBuffer = 0
    /\ state = ReadingFinalBit
    /\ bfinal = Undefined
    /\ isDynamic = FALSE
    /\ end_of_block_code_seen = FALSE
    /\ literalLengthTree = NoTree
    /\ distanceTree = NoTree
    /\ window = [run |-> n, fill |-> fill, slots |-> <<>>]
    /\ end = n % WindowSize
    /\ current = IF n = k THEN 0 ELSE (n - k) - 1
    /\ lengthDecompressed = k
    /\ lengthUncompressed = 0
    /\ s1 = 1 + n * fill
    /\ s2 = Wide(n + fill * ((n * (n + 1)) \div 2))
    /\ codeList = <<>>
    /\ codeLengthTreeCodeLength = <<>>
    /\ verified = <<>>
    /\ result = NoResult
    /\ yielded = <<>>
    /\ written = <<>>
    /\ calls = 0
    /\ lastOp = [op |-> "none", a |-> 0, b |-> 0]

\* The pending bytes end below the top of the window, or at its last slot.
InitFull ==
    /\ phase = "ready"
    /\ wrapper = "inflate"
    /\ \E k \in InitialPending : \E n \in {k, WindowSize - 1} : Filled(n, k, InitialFill)

SpecFull == InitFull /\ [][NextWindow]_vars

-----------------------------------------------------------------------------
(* Properties                                                               *)

\* A step that is a call of next().
IsPull == lastOp'.op = "next" /\ calls' = calls + 1

\* LEN and NLEN of a producer that starts with a stored block.
LEN == source[2] + 256 * source[3]
NLEN == source[4] + 256 * source[5]

\* The strings the engine throws when the producer ends too soon.
EndOfStreamErrors == {"End Of Stream Exception", "EndOfStreamException()"}

\* C1: the first call of next() on a producer that starts with the header of
\* a stored block (BTYPE = 00) and its LEN and NLEN accepts the header
\* exactly when LEN = ~NLEN & 0xFFFF: it then throws nothing, returns the
\* exhausted marker for an empty final block, and for a block that holds
\* bytes returns the first and leaves LEN - 1 to pass through; otherwise it
\* throws InvalidBlockLength.
StoredHeaderAccepted ==
    (wrapper = "inflate" /\ calls = 1 /\ Len(source) >= 5 /\ source[1] \in {0, 1})
        => IF LEN = 65535 - NLEN
           THEN /\ result.thrown \notin {"InvalidBlockLength"}
                /\ (LEN = 0 /\ source[1] = 1) => (result.done /\ result.thrown = "")
                /\ (LEN > 0 /\ Len(source) > 5)
                      => /\ result = [done |-> FALSE, value |-> source[6], thrown |-> ""]
                         /\ lengthUncompressed = LEN - 1
           ELSE result.thrown = "InvalidBlockLength"

\* C2: a call of next() with nothing pending in the window, bytes of a stored
\* block still to pass through and a producer that has a byte takes exactly
\* that byte from the producer, returns it, stores it at window[end], moves
\* end on by one modulo the window size, adds it to the two sums, takes one
\* from the bytes to pass through, and leaves the block state and the bit
\* buffer alone.
PassThroughPull ==
    [][ (IsPull /\ lengthDecompressed = 0 /\ lengthUncompressed > 0 /\ iterator # <<>>)
          => /\ iterator' = Tail(iterator)
             /\ result' = [done |-> FALSE, value |-> Head(iterator), thrown |-> ""]
             /\ yielded' = Append(yielded, Head(iterator))
             /\ WindowLoad(window', end) = Head(iterator)
             /\ end' = (end + 1) % 32768
             /\ s1' = s1 + Head(iterator)
             /\ s2' = WideAdd(s2, s1 + Head(iterator))
             /\ lengthUncompressed' = lengthUncompressed - 1
             /\ lengthDecompressed' = 0
             /\ state' = state
             /\ bfinal' = bfinal
             /\ bitBuffer' = bitBuffer
             /\ bitsInBuffer' = bitsInBuffer ]_vars

\* C2, its case: the three bytes of a stored block have been passed through
\* from the producer in order, by three calls in a row.
PassThroughPullSeen ==
    /\ source = StoredStream(1, <<97, 97, 97>>)
    /\ wrapper = "inflate"
    /\ lastOp.op = "next"
    /\ yielded = <<97, 97, 97>>
    /\ lengthUncompressed = 0
    /\ iterator = <<>>

\* C3: on the stream of one final block that holds the fixed codes of the
\* bytes of B and the end-of-block code, Len(B) + 1 calls of next() have
\* returned exactly the bytes of B and then the exhausted marker.
FixedRoundTrip ==
    \A B \in Texts :
        (wrapper = "inflate" /\ source = FixedStream(B) /\ calls = Len(B) + 1)
            => (yielded = B /\ result.done /\ result.thrown = "")

\* The number of bytes the window holds.
BytesInWindow ==
    IF window.run + Len(written) < WindowSize THEN window.run + Len(written) ELSE WindowSize

\* The byte j positions before the end of the output so far, for a j that is
\* at most BytesInWindow: one written since the first state, or one of the run
\* before it.
OutBack(j) == IF j <= Len(written) THEN written[Len(written) - j + 1] ELSE window.fill

\* C4: a call WriteLengthDistance(length, distance) with a distance of at
\* most the bytes the window holds writes `length` bytes, the i-th of them
\* the byte `distance` positions before its own position in the output (one
\* of this very call when i > distance), each stored in the window at its
\* position modulo the window size; afterwards end has moved on by length
\* modulo the window size and the pending count has grown by length.
CopyRereadsOutput ==
    [][ (   lastOp'.op = "WriteLengthDistance" /\ calls' = calls + 1
         /\ lastOp'.b <= BytesInWindow)
          => /\ Len(written') = Len(written) + lastOp'.a
             /\ \A i \in 1..lastOp'.a :
                   /\ written'[Len(written) + i] =
                         IF i > lastOp'.b THEN written'[Len(written) + i - lastOp'.b]
                         ELSE OutBack(lastOp'.b - i + 1)
                   /\ WindowLoad(window', (end + i - 1) % 32768) = written'[Len(written) + i]
             /\ end' = (end + lastOp'.a) % 32768
             /\ lengthDecompressed' = lengthDecompressed + lastOp'.a ]_vars

\* C4, its case on the path that wraps: the byte 65 written two slots below
\* the top of the window, then a copy of length 258 at distance 1, make 259
\* bytes 65, and end has wrapped.
CopyRereadsOutputSeen ==
    /\ lastOp = [op |-> "WriteLengthDistance", a |-> 258, b |-> 1]
    /\ written = [i \in 1..259 |-> 65]
    /\ end = 257
    /\ lengthDecompressed = 259

\* C5: a call of next() with p > 0 bytes pending returns window[(end - p)
\* mod 32768] and leaves p - 1 pending, and the bytes returned so far are
\* then the bytes written, in the order written, less the ones still pending.
TakeReturnsWrites ==
    [][ (IsPull /\ lengthDecompressed > 0)
          => /\ result' = [done   |-> FALSE,
                           value  |-> WindowLoad(window, (end - lengthDecompressed) % 32768),
                           thrown |-> ""]
             /\ lengthDecompressed' = lengthDecompressed - 1
             /\ yielded' = SubSeq(written', 1, Len(written') - lengthDecompressed') ]_vars

\* C5, its case: of two bytes written into the last two slots of the window
\* the first has been returned and the second is pending behind the wrapped
\* end.
TakeReturnsWritesSeen ==
    /\ lastOp.op = "next"
    /\ written = <<65, 66>>
    /\ yielded = <<65>>
    /\ lengthDecompressed = 1
    /\ end = 0

\* The value ((s2 mod 65521) << 16) | (s1 mod 65521) for the Adler-32 of B.
RefAdlerValue(B) == Shl(RefAdler(B)[2], 16) + RefAdler(B)[1]

\* C6: on a ZLIB stream of B, Len(B) + 1 calls of next() have brought the
\* engine to Done with nothing left to return, and the checksum callback
\* has been handed, once, the Adler-32 of the bytes returned.
CallbackGetsAdler ==
    \A B \in Texts :
        (   wrapper = "zlib" /\ calls = Len(B) + 1
         /\ source \in {ZLibStream(FixedStream(B), B), ZLibStream(StoredStream(1, B), B)})
            => (state = Done /\ yielded = B /\ verified = <<RefAdlerValue(B)>>)

\* C7: the constructor of ZLibInflate over a producer of CMF and FLG fails
\* exactly when the method is not 8, or the window is too large, or
\* CMF * 256 + FLG is not a multiple of 31; over a producer of fewer than two
\* bytes it fails with an end-of-stream error; and when it succeeds it has
\* taken exactly two bytes from the producer.
HeaderValidated ==
    (wrapper = "zlib" /\ calls = 0)
        => /\ Len(source) >= 2
              => (phase = "failed" <=> (   source[1] % 16 # 8
                                        \/ (source[1] \div 16) + 8 > 15
                                        \/ (source[1] * 256 + source[2]) % 31 # 0))
           /\ Len(source) < 2
              => (phase = "failed" /\ result.thrown \in EndOfStreamErrors)
           /\ phase = "ready"
              => (iterator = SubSeq(source, 3, Len(source)) /\ result.thrown = "")

\* C8: the constructor of ZLibInflate over a header that passes the three
\* checks and has bit 5 of FLG set fails with UnsupportedPreset, and no
\* engine is made.
PresetRejected ==
    (   wrapper = "zlib" /\ Len(source) >= 2
     /\ source[1] % 16 = 8 /\ (source[1] \div 16) + 8 <= 15
     /\ (source[1] * 256 + source[2]) % 31 = 0
     /\ (source[2] \div 32) % 2 = 1)
        => (phase = "failed" /\ result.thrown = "UnsupportedPreset")

\* C9: on a ZLIB stream of B whose trailer is the Adler-32 of B, the four
\* bytes of the trailer are still with the producer for as long as the
\* callback has not run, and Len(B) + 1 calls of next() have ended the stream
\* without an error and with the trailer taken.
TrailerLeftForCallback ==
    (wrapper = "zlib" /\ phase = "ready" /\ source \in ZLibStreams)
        => /\ verified = <<>> => Len(iterator) >= 4
           /\ \A B \in Texts :
                 (   calls = Len(B) + 1
                  /\ source \in {ZLibStream(FixedStream(B), B),
                                 ZLibStream(StoredStream(1, B), B)})
                     => (result.done /\ result.thrown = "" /\ iterator = <<>>)

\* C10: on a complete stream of B, plain or ZLIB, every call of next() after
\* the first Len(B) has returned the exhausted marker and thrown nothing,
\* the producer is left where the end of the stream left it, and the
\* callback has run at most once.
ExhaustionSticky ==
    \A B \in Texts :
        (   calls > Len(B)
         /\ \/ wrapper = "inflate" /\ source \in {FixedStream(B), StoredStream(1, B)}
            \/ wrapper = "zlib" /\ source \in {ZLibStream(FixedStream(B), B),
                                               ZLibStream(StoredStream(1, B), B)})
            => (result.done /\ result.thrown = "" /\ iterator = <<>> /\ Len(verified) <= 1)

\* C11: a call of next() that follows a call of next() that threw throws the
\* same error, and so returns neither a byte nor the exhausted marker; after
\* a stored header with LEN > 0 was rejected, the next call passes no
\* producer byte through.
ErrorsTerminal ==
    [][ (IsPull /\ lastOp.op = "next" /\ result.thrown # "")
          => (result'.thrown = result.thrown /\ yielded' = yielded) ]_vars

\* Streams cut before the first byte of output could be decoded: nothing, a
\* stored block cut inside its header, a fixed block cut inside its first
\* code.
TruncatedStreams == {<<>>, <<1>>, <<1, 1, 0>>, <<75>>}

\* C12: the count of buffered bits is never negative, and the first call of
\* next() on a stream cut short throws an end-of-stream error: it returns
\* neither a byte nor the exhausted marker and throws no other error.
TruncatedFailsEndOfStream ==
    /\ bitsInBuffer >= 0
    /\ (wrapper = "inflate" /\ source \in TruncatedStreams /\ calls = 1)
          => result.thrown \in EndOfStreamErrors


\* The byte k (from 1) of the producer, 0 where it has none: GetBits reads
\* zero bits past the end of the producer.
SourceByte(k) == IF k <= Len(source) THEN source[k] ELSE 0

\* C14: a call of next() that finds the engine in state ReadingFinalBit with
\* nothing pending and the producer not empty takes BFINAL from bit 0 and
\* BTYPE from bits 1..2 of the next byte.  BTYPE 0 reads the stored-block
\* header (the length field is the two bytes after the header byte), BTYPE 1
\* installs the two static trees, clears isDynamic and leaves the state at
\* DecodingBlock, BTYPE 2 reads the dynamic header and decodes the block with
\* isDynamic set unless the header itself fails, and BTYPE 3 throws
\* "Unknown Block Type" with no byte written or returned.
BlockTypeDispatch ==
    [][ (/\ IsPull
         /\ state = ReadingFinalBit
         /\ lengthDecompressed = 0 /\ lengthUncompressed = 0
         /\ bitsInBuffer = 0 /\ iterator = source /\ iterator # <<>>)
          => LET type == (Head(iterator) \div 2) % 4
             IN  /\ bfinal' = Head(iterator) % 2
                 /\ type = 0 => /\ state' \in {ReadingUncompressed, ReadingFinalBit}
                                /\ lengthUncompressed' = SourceByte(2) + 256 * SourceByte(3)
                                /\ written' = written
                 /\ type = 1 => /\ literalLengthTree' = StaticLiteralLengthTree
                                /\ distanceTree' = StaticDistanceTree
                                /\ ~isDynamic'
                                /\ state' = DecodingBlock
                 /\ type = 2 => /\ state' \in {ReadingDynamic, DecodingBlock}
                                /\ codeLengthTreeCodeLength' # <<>>
                                /\ isDynamic' \/ result'.thrown # ""
                                /\ isDynamic' => literalLengthTree' # StaticLiteralLengthTree
                 /\ type = 3 => /\ result'.thrown = "Unknown Block Type"
                                /\ state' = UnknownBlockType
                                /\ written' = written
                                /\ yielded' = yielded ]_vars

\* C14 happens: the first call on the producer of the byte 07 (BFINAL 1,
\* BTYPE 3) has thrown and nothing was written.
BlockTypeDispatchSeen ==
    /\ lastOp.op = "next" /\ calls = 1 /\ wrapper = "inflate"
    /\ source = <<7>> /\ bfinal = 1 /\ state = UnknownBlockType
    /\ result.thrown = "Unknown Block Type" /\ written = <<>>

\* C15: the first call of next() on a producer that holds one whole final
\* block (fixed codes ending with the end-of-block code, or a stored block)
\* reaches the end of that block, whose BFINAL is 1, and so leaves the state
\* at Done.
FinalBlockEndIsDone ==
    (/\ wrapper = "inflate" /\ lastOp.op = "next" /\ calls = 1
     /\ source \in FixedStreams \cup StoredStreams)
        => (bfinal = 1 /\ state = Done)

CodesAreCanonical ==
    wrapper = "table" =>
        /\ \A b \in 1..15 :
              /\ BitLengthCount(literalLengthTree.codeLengthArray)[b]
                    = RefCount(literalLengthTree.codeLengthArray, b)
              /\ NextCode(literalLengthTree.codeLengthArray)[b]
                    = RefNextCode(literalLengthTree.codeLengthArray, b)
        /\ \A i \in DOMAIN literalLengthTree.codeLengthArray :
              literalLengthTree.codeLengthArray[i] > 0
                 => CalculateHuffmanCode(literalLengthTree.codeLengthArray)[i]
                       = RefReversedCode(literalLengthTree.codeLengthArray, i)

\* C18: when the producer holds the canonical code of the symbol i of the
\* vector cl the table was constructed from, GetNextSymbol returns i and takes
\* cl[i] bits from the input.
SymbolDecoded ==
    \A i \in CodedSymbols :
        (/\ wrapper = "table" /\ lastOp.op = "GetNextSymbol" /\ calls = 1
         /\ i \in DOMAIN literalLengthTree.codeLengthArray
         /\ literalLengthTree.codeLengthArray[i] > 0
         /\ source = SymbolSource(literalLengthTree.codeLengthArray, i))
            => /\ result.thrown = ""
               /\ result.value = i
               /\ bitsInBuffer + 8 * Len(iterator)
                     = 8 * Len(source) - literalLengthTree.codeLengthArray[i]

\* The largest value a vector of code lengths holds.
RefMaxLength(cl) ==
    CHOOSE b \in {cl[i] : i \in DOMAIN cl} : \A i \in DOMAIN cl : cl[i] <= b

\* C19: the maximum code length a constructed table holds is the largest
\* value of its vector of code lengths, and so at most 15.
MaxCodeLengthIsLargest ==
    (wrapper = "table" /\ phase = "ready")
        => /\ literalLengthTree.maxCodeLength = RefMaxLength(literalLengthTree.codeLengthArray)
           /\ literalLengthTree.maxCodeLength <= 15

\* C20: between calls the bit count is within 0..32 and the bit buffer has no
\* bit set at or above the position the count names.
BitCountInRange ==
    /\ bitsInBuffer \in 0..32
    /\ bitsInBuffer < 32 => bitBuffer \in 0..(2 ^ bitsInBuffer - 1)

\* C30: BitReverse(code, length) of a code below 2^length, 1 <= length <= 16,
\* is below 2^length, and BitReverse of what it returned, with the same
\* length, returns the code.
BitReverseInvolution ==
    [][ (lastOp'.op = "BitReverse" /\ calls' = calls + 1)
          => /\ result'.value \in 0..(2 ^ lastOp'.b - 1)
             /\ lastOp.op = "BitReverse" => result'.value = lastOp.a ]_vars

\* C30 happens: the 16-bit code 1 was reversed to 0x8000, and that back to 1.
BitReverseInvolutionSeen ==
    /\ calls = 2
    /\ lastOp = [op |-> "BitReverse", a |-> 32768, b |-> 16]
    /\ result.value = 1

IsPending(i) == ((end - 1) - i) % WindowSize < lengthDecompressed

\* C22: end stays within 0..32767 and the number of pending bytes within
\* 0..32768; Write and WriteLengthDistance are called only with more than 258
\* bytes free, they add 1 and length to the pending bytes, and every slot
\* either of them changes is one that held no pending byte.
PendingKept ==
    [][ /\ end' \in 0..(WindowSize - 1)
        /\ lengthDecompressed' \in 0..WindowSize
        /\ lastOp'.op \in {"Write", "WriteLengthDistance"}
              => /\ WindowSize - lengthDecompressed > 258
                 /\ lengthDecompressed' - lengthDecompressed
                       = IF lastOp'.op = "Write" THEN 1 ELSE lastOp'.a
                 /\ window'.run = window.run /\ window'.fill = window.fill
                 /\ \A i \in DOMAIN window'.slots :
                       WindowLoad(window', i) # WindowLoad(window, i) => ~IsPending(i) ]_vars

\* C22 happens: with 32,509 bytes pending a copy of 258 bytes was made, it
\* ran over the top of the window, and one byte is left free.
PendingKeptSeen ==
    /\ lastOp.op = "WriteLengthDistance"
    /\ lastOp.a = 258
    /\ lengthDecompressed = WindowSize - 1
    /\ end = 257

\* C23: a table the constructor has made from a vector of L code lengths has
\* allocated at most L nodes, so the next free node, avail, is at most 2L and
\* every node index is below the 2L slots of the arrays left and right.
NodesWithinArrays ==
    (wrapper = "table" /\ phase = "ready")
        => literalLengthTree.avail <= 2 * Len0(literalLengthTree.codeLengthArray)


\* HLIT + HDIST of the first header of a producer that starts with a dynamic
\* block: 257 + bits 3..7 of the first byte and 1 + bits 0..4 of the second.
CodeArraySize == (257 + ((source[1] \div 8) % 32)) + (1 + (source[2] % 32))

\* C24: the pull that reads a dynamic header writes no entry of codeList at
\* HLIT + HDIST or beyond, and at most 320; a symbol 16 that comes first throws
\* with nothing written; a repeat by 18, 17 or 16 that would pass HLIT + HDIST
\* throws with the entries before it written and none of its own; a header
\* that repeats within HLIT + HDIST leaves exactly that many entries, the
\* counts of 16, 17 and 18 being 3 + 2 bits, 3 + 3 bits and 11 + 7 bits.
CodeListWithinHeader ==
    [][ (IsPull /\ calls = 0 /\ wrapper = "inflate" /\ source \in DynamicHeaders)
          => /\ CodeArraySize <= 320
             /\ DOMAIN codeList' \subseteq 0..(CodeArraySize - 1)
             /\ source = SixteenFirst
                   => result'.thrown = "Invalid Data Exception" /\ DOMAIN codeList' = {}
             /\ source = Overrun18
                   => /\ result'.thrown = "Invalid Data Exception"
                      /\ codeList' = [i \in 0..137 |-> 0]
             /\ source = Overrun17
                   => /\ result'.thrown = "Invalid Data Exception"
                      /\ codeList' = [i \in 0..256 |-> 0]
             /\ source = Overrun16
                   => /\ result'.thrown = "Invalid Data Exception"
                      /\ codeList' = [i \in 0..255 |-> IF i = 255 THEN 8 ELSE 0]
             /\ source = RepeatsHeader
                   => /\ result'.thrown # "Invalid Data Exception"
                      /\ codeList' = RepeatsCodeList
             /\ source = MissingEndHeader => DOMAIN codeList' = 0..259 ]_vars

CodeListWithinHeaderSeen ==
    /\ wrapper = "inflate" /\ source = RepeatsHeader /\ calls = 1
    /\ codeList = RepeatsCodeList /\ DOMAIN codeList = 0..(CodeArraySize - 1)


\* HLIT of the first header of a producer that starts with a dynamic block.
LiteralLengthCodeCount == 257 + ((source[1] \div 8) % 32)

\* C27: the pull that reads a dynamic header giving no code to the symbol 256
\* throws and installs neither table; a first header that installs the
\* literal/length table gives it the first HLIT entries of codeList followed
\* by zeros up to 288, and the distance table, when installed, the entries
\* that follow, HLIT + HDIST excluded, followed by zeros up to 32; a header
\* read after a longer one takes nothing from the entries the longer one left.
TablesFromCodeList ==
    [][ (IsPull /\ wrapper = "inflate" /\ Len(source) >= 2 /\ (source[1] \div 2) % 4 = 2)
          => /\ (calls = 0 /\ source = MissingEndHeader)
                   => /\ result'.thrown = "Invalid Data Exception"
                      /\ literalLengthTree' = NoTree /\ distanceTree' = NoTree
             /\ (calls = 0 /\ literalLengthTree' # NoTree)
                   => /\ literalLengthTree'.codeLengthArray
                             = [i \in 0..(MaxLiteralTreeElements - 1) |->
                                   IF i < LiteralLengthCodeCount THEN codeList'[i] ELSE 0]
                      /\ literalLengthTree'.codeLengthArray[EndOfBlockCode] # 0
                      /\ distanceTree' # NoTree
                            => distanceTree'.codeLengthArray
                                  = [i \in 0..(MaxDistTreeElements - 1) |->
                                        IF LiteralLengthCodeCount + i < CodeArraySize
                                        THEN codeList'[LiteralLengthCodeCount + i] ELSE 0]
             /\ (calls = 1 /\ source = MissingEndHeader)
                   => /\ literalLengthTree'.codeLengthArray
                             = [i \in 0..(MaxLiteralTreeElements - 1) |->
                                   IF i \in {0, EndOfBlockCode} THEN 8 ELSE 0]
                      /\ distanceTree'.codeLengthArray
                             = [i \in 0..(MaxDistTreeElements - 1) |-> 0] ]_vars

\* The second header of MissingEndHeader has been read: its tables are in
\* place and codeList still holds the distance lengths of the first.
TablesFromCodeListSeen ==
    /\ wrapper = "inflate" /\ source = MissingEndHeader /\ calls = 2
    /\ literalLengthTree.codeLengthArray[EndOfBlockCode] = 8
    /\ distanceTree # NoTree
    /\ Load(codeList, 258) = 8 /\ Load(codeList, 259) = 8


\* C25: the first pull on a block with fixed codes whose first code is that of
\* the literal/length symbol 286 throws "GenericInvalidData" and has written
\* nothing to the window.
InvalidLengthSymbolFails ==
    (wrapper = "inflate" /\ source = InvalidLengthStream /\ calls = 1)
        => result.thrown = "GenericInvalidData" /\ written = <<>>

\* C26: the first pull on a block with fixed codes that holds a match whose
\* distance code is 30 throws "GenericInvalidData".
DistanceThirtyFails ==
    (wrapper = "inflate" /\ source = DistanceThirtyStream /\ calls = 1)
        => result.thrown = "GenericInvalidData"


\* C28 as stated: between two reductions neither sum passes 2^32 - 1, which is
\* 65535 * 65536 + 65535.
AccumulatorsWithin32Bits ==
    /\ s1 # NaN => WideAtMost(Wide(s1), 65535, 65535)
    /\ s2 # WideNaN => WideAtMost(s2, 65535, 65535)

\* C28, amended: s1 stays within 65520 + 255 * 65535, below 2^32; s2 stays
\* below 2^40 and is the exact sum, not one cut to 32 bits: after the one
\* DecodeBlock call that writes the 5810 literals 255 of LiteralRunStream,
\* s1 = 1 + 255 * 5810 and s2 = 5810 + 255 * 5810 * 5811 / 2
\* = 4 304 649 335 = 65683 * 65536 + 48247.
AccumulatorsExact ==
    /\ s1 \in 0..(65520 + 255 * 65535)
    /\ s2[1] \in 0..(2 ^ 24 - 1) /\ s2[2] \in 0..65535
    /\ (wrapper = "inflate" /\ source = LiteralRunStream /\ calls = 1)
          => /\ lengthDecompressed = 5810
             /\ s1 = 1 + 255 * 5810
             /\ s2 = <<65683, 48247>>

AccumulatorsExactSeen ==
    /\ wrapper = "inflate" /\ source = LiteralRunStream /\ calls = 1
    /\ lengthDecompressed = 5810
    /\ ~WideAtMost(s2, 65535, 65535)


\* C29: a call of GetNextSymbol that returns a symbol has taken at least one
\* bit: fewer bits are left, in the buffer and in the producer, than before.
SymbolTakesInput ==
    [][ (/\ lastOp'.op = "GetNextSymbol" /\ calls' = calls + 1
         /\ result'.thrown = "" /\ result'.value # Undefined)
          => bitsInBuffer' + 8 * Len(iterator') < bitsInBuffer + 8 * Len(iterator) ]_vars
====
